---- MODULE Spec2Model ----
(***************************************************************************)
(* A model of gosh, the multi-host ssh session manager.                    *)
(*                                                                         *)
(* The repository holds several generations of the same files; every part  *)
(* of the model names, in a comment, the generation it is taken from.      *)
(*                                                                         *)
(*   SpecStream  one dispatch of a command over the connected hosts with   *)
(*               streaming readers (pkg/ssh.go runSSHPersistentStreaming,  *)
(*               pkg/commands.go executeCommandStreaming).                 *)
(*   SpecRun     one run of the program with the connection registry, from *)
(*               the parallel connection phase to closeAll: interactive    *)
(*               mode (unnamed/part_005 InteractiveMode) and one-shot mode *)
(*               (pkg/commands.go ExecuteCommand) over the registry of     *)
(*               pkg/ssh.go.                                               *)
(*   SpecReg     the registry with the freshness window: establish, reuse, *)
(*               tear down and close (unnamed/part_014                     *)
(*               SSHConnectionManager, driven by unnamed/part_006          *)
(*               InteractiveMode and pkg/commands.go                       *)
(*               ExecuteCommandPersistent).                                *)
(*   SpecLine    the switch of the interactive loop over one input line    *)
(*               after the other (unnamed/part_005 InteractiveMode).       *)
(*   SpecSession the loop over long-lived host sessions, its input reader  *)
(*               and its per-host output readers                           *)
(*               (pkg/interactive_session.go, unnamed/part_012).           *)
(*   SpecStrip   readHostOutput's cleaning of one line a host wrote        *)
(*               (unnamed/part_012).                                       *)
(*   SpecSock    the control socket paths of two hosts (pkg/ssh.go         *)
(*               getSocketPath).                                           *)
(*   SpecBar     one call of printProgressBar, with its float64            *)
(*               arithmetic (unnamed/part_006).                            *)
(*   SpecPfx     one call of formatHostPrefix (pkg/format.go).             *)
(*   SpecLim     one call of limitCompletions.                             *)
(*   SpecDo      one call of customCompleter.Do.                           *)
(*   SpecMark    ReadHostOutput, the reader that buffers a host's output   *)
(*               up to the prompt marker (pkg/io.go).                      *)
(*   SpecCtl     one call of HandleControlCommand (pkg/control_commands.go). *)
(*   SpecSig     the contexts, signal channels and watcher tasks of the    *)
(*               command lines of InteractiveMode.                         *)
(*   SpecTwo     two connection registries that are alive at the same time *)
(*               (pkg/ssh.go).                                             *)
(*   SpecUpload  one call of uploadFile with one runSCP task per session  *)
(*               of the registry (pkg/commands.go).                        *)
(***************************************************************************)
EXTENDS Integers, Sequences, FiniteSets, TLC

\* ------------------------------------------------------------------ bounds

\* The hosts of the model.
Hosts == {"h1", "h2"}

\* The most lines the remote commands of one dispatch write, over all hosts
\* and both streams.
MaxLines == 3

\* The most hosts given on the command line (a host may be given twice).
MaxHostList == 2

\* The most command lines the operator enters in one interactive run over
\* the registry with the freshness window.
MaxCommands == 1

\* The most command lines the operator enters in one interactive run over
\* the streaming registry.
MaxBroadcasts == 2

\* The last minute of the clock of a run.
MaxTime == 6

\* The minutes a session stays fresh after its last use.
FreshWindow == 5

\* The most tokens of an input line.
MaxLineLen == 3

\* The records outputChan buffers; the code's 100, scaled to the model's
\* line budget.
OutputChanCap == 2

\* The most characters of a line a host writes.
MaxTextLen == 6

\* The most characters of a host name.
MaxNameLen == 2

\* The largest argument of printProgressBar.
MaxCount == 22

\* The largest index and the largest field width formatHostPrefix is
\* called with.
MaxIdx == 18
MaxPad == 4

\* The longest list of completions limitCompletions is called with.
MaxCompletionList == 12

\* The longest line typed after which completion is asked, the longest
\* text after ":upload ", and the most lines a compgen run prints.
MaxDoLen == 3
MaxUploadArg == 1
MaxCompgenLines == 2

\* The most lines a host writes to the prompt-marker reader, and the most
\* pieces of text in one of them.
MaxHostLines == 3
MaxPieces == 2

\* The most pieces after the ':' of a control line.
MaxCtlLen == 3

\* The most command lines of a session whose interrupts are followed, and
\* the most interrupts sent during it.
MaxDispatch == 3
MaxInterrupts == 2

\* The two output streams of a remote command.
Streams == {"stdout", "stderr"}

\* ========================================================================
\* Part 1: streaming dispatch
\* ========================================================================

VARIABLES
    dispatched,  \* the keys of cm.connections the dispatch ranges over
    ctxDone,     \* the dispatch's context has been cancelled
    task,        \* per host: position of its runSSHPersistentStreaming call
    proc,        \* per host: state of the ssh child process
    written,     \* per host: the stream of every line written, in order
    pipe,        \* per host and stream: line numbers written and not yet read
    pipeClosed,  \* per host and stream: the parent's read end is closed
    reader,      \* per host and stream: position of the reader goroutine
    line,        \* per host and stream: the reader's scanner.Text()
    terminal     \* the records printed so far, in order

streamVars == <<dispatched, ctxDone, task, proc, written, pipe, pipeClosed,
                reader, line, terminal>>

VARIABLES
    mode,              \* "oneshot" (ExecuteCommand) or "interactive"
    hostList,          \* hosts, the command-line arguments, in order
    est,               \* per index of hostList: position of its goroutine
    attempt,           \* per index: outcome of its ssh -M connection attempt
    connections,       \* the keys of cm.connections
    sockets,           \* the hosts whose control socket file is on disk
    mu,                \* who holds cm.mu
    resultChan,        \* the results sent and not yet received
    chanClosed,        \* resultChan has been closed
    completed,         \* InteractiveMode's counter of results received
    connectedHosts,    \* InteractiveMode's list of connected hosts
    failedConnections, \* InteractiveMode's list of failed hosts
    warned,            \* the failures printed after the connection phase
    pc,                \* position of the main goroutine
    runCtx,            \* the context of the command in flight is cancelled
    intrPhase,         \* what the tasks were doing when the interrupt came
    bcast,             \* per host: its task of the broadcast in flight
    commands,          \* command lines entered so far
    toClose,           \* keys the range of cleanupAllConnections has left
    closeOrder,        \* the hosts cleanupConnection was called for, in order
    closeFailed,       \* the hosts whose "ssh -O exit" failed
    closeTargets,      \* the sessions the registry held when closeAll began
    closeAllRuns,      \* how often closeAll has been entered
    exitPath,          \* why the run ended
    outcome,           \* "running", then "ok" or "fatal"
    shown              \* the calls of printProgressBar: current and total

runVars == <<mode, hostList, est, attempt, connections, sockets, mu,
             resultChan, chanClosed, completed, connectedHosts,
             failedConnections, warned, pc, runCtx, intrPhase, bcast,
             commands, toClose, closeOrder, closeFailed, closeTargets,
             closeAllRuns, exitPath, outcome, shown>>

VARIABLES
    regList,      \* hosts, the command-line arguments, in order
    now,          \* the clock, in minutes
    registry,     \* per host: cm.connections holds a connected session
    lastUsed,     \* per host: lastUsed of its session
    socketFiles,  \* the hosts whose control socket file is on disk
    call,         \* per index of regList: its call in flight
    kind,         \* what the calls in flight are: "connect" or "command"
    regConnected, \* the indices of regList that make up connectedHosts
    regPc,        \* position of InteractiveMode
    regCommands   \* command lines entered so far

regVars == <<regList, now, registry, lastUsed, socketFiles, call,
             kind, regConnected, regPc, regCommands>>

VARIABLES
    linePc,       \* position of the loop: "prompt" or "exited"
    lastLine,     \* the line the loop handled last, after TrimSpace
    branch,       \* the case of the switch that handled it
    verboseFlag,  \* the global Verbose
    remoteRuns,   \* how often executeCommandStreaming has been called
    uploadRuns    \* how often uploadFile has been called

lineVars == <<linePc, lastLine, branch, verboseFlag, remoteRuns, uploadRuns>>

VARIABLES
    sessPc,       \* position of StartInteractiveSession and of its caller
    doneChan,     \* doneChan is closed
    inputChan,    \* inputChan is closed
    inPc,         \* position of readUserInput
    inText,       \* the line readUserInput is sending
    entered,      \* lines the user has typed so far
    hostSessions, \* the hosts that have a session
    shell,        \* per host: the ssh child, "running" or "exited"
    stdoutBuf,    \* per host: lines in the child's output pipe
    emitted,      \* lines the remote shells have written so far
    outPc,        \* per host: position of readHostOutput
    outputChan,   \* records buffered in outputChan
    closeCalls,   \* per host: how often hs.Close has been called
    quitSeen,     \* the loop has received a quit token
    outputMutex,  \* the task that holds outputMutex, or "free"
    writers       \* the tasks that are writing to the terminal

sessVars == <<sessPc, doneChan, inputChan, inPc, inText, entered,
              hostSessions, shell, stdoutBuf, emitted, outPc, outputChan,
              closeCalls, quitSeen, outputMutex, writers>>

VARIABLES
    upPc,         \* position of uploadFile
    upFile,       \* what os.Stat finds at the path
    upVerbose,    \* the global Verbose
    upConns,      \* the hosts cm.connections holds
    scp,          \* per host: the runSCP task and its scp child
    upOut         \* the lines printed, in order

upVars == <<upPc, upFile, upVerbose, upConns, scp, upOut>>

VARIABLES
    stripPc,      \* position of readHostOutput on one line
    rawLine,      \* the line reader.ReadString returned
    cleanLine     \* the text of the record made from it

stripVars == <<stripPc, rawLine, cleanLine>>

VARIABLES
    sockHosts,    \* the host names establishConnection is called with
    sockPath      \* per call: the socketPath it computed, <<>> before

sockVars == <<sockHosts, sockPath>>

VARIABLES
    barPc,        \* position of printProgressBar: "called" or "returned"
    barArgs,      \* its arguments current, total and width
    barOut        \* what it has printed

barVars == <<barPc, barArgs, barOut>>

VARIABLES
    pfxPc,        \* position of formatHostPrefix: "called" or "returned"
    pfxArgs,      \* its arguments host, idx, maxLen and noColor
    pfxOut        \* the string it returned

pfxVars == <<pfxPc, pfxArgs, pfxOut>>

VARIABLES
    limPc,        \* position of limitCompletions: "called" or "returned"
    limIn,        \* the completions it is called with
    limOut        \* the completions it returned

limVars == <<limPc, limIn, limOut>>

VARIABLES
    doPc,         \* position of customCompleter.Do: "called", "returned" or "panicked"
    doLine,       \* the line it is called with
    doPos,        \* the cursor position it is called with
    doHosts,      \* the hosts of the completer
    doResult      \* the completions and the word start it returned

doVars == <<doPc, doLine, doPos, doHosts, doResult>>

VARIABLES
    rdPc,         \* position of ReadHostOutput: "reading" or "closed"
    hostText,     \* the lines the host writes, in order
    consumed,     \* how many of them reader.ReadString has returned
    buffer,       \* ReadHostOutput's buffer
    delivered     \* the Data of the records sent on outputChan, in order

markVars == <<rdPc, hostText, consumed, buffer, delivered>>

VARIABLES
    ctlPc,        \* position of HandleControlCommand: "called", "returned" or "panicked"
    ctlInput,     \* the input line it is called with
    ctlOut        \* what it printed or started, in order

ctlVars == <<ctlPc, ctlInput, ctlOut>>

VARIABLES
    sigPc,        \* position of the loop: "prompt", "running", "cleanup" or "exited"
    dispatch,     \* the number of the broadcast in flight, or of the last one
    ctx,          \* per broadcast: its context is "none", "live" or "cancelled"
    notified,     \* the broadcasts whose sigChan is registered for the interrupt
    pending,      \* the broadcasts whose sigChan holds a signal
    watcher,      \* per broadcast: its watcher task is "none", "waiting" or "done"
    sigTask,      \* per host: its task of the broadcast in flight
    hit,          \* the broadcasts during which an interrupt arrived
    interrupts    \* the interrupts sent so far

sigVars == <<sigPc, dispatch, ctx, notified, pending, watcher, sigTask, hit,
             interrupts>>

VARIABLES
    manager,      \* per registry: "none", "alive" or "closed"
    tables,       \* per registry: the keys of its cm.connections
    dirExists,    \* the socket directory is on disk
    sockFiles,    \* the hosts whose control socket file is in the directory
    masters       \* the hosts a master process is running for

twoVars == <<manager, tables, dirExists, sockFiles, masters>>

vars == <<streamVars, runVars, regVars, lineVars, sessVars, upVars,
           stripVars, sockVars, barVars, pfxVars, limVars, doVars, markVars,
           ctlVars, sigVars, twoVars>>

\* The variables of the other parts, which a step of one part leaves alone.
notStream == <<runVars, regVars, lineVars, sessVars, upVars, stripVars,
                sockVars, barVars, pfxVars, limVars, doVars, markVars,
                ctlVars, sigVars, twoVars>>
notRun == <<streamVars, regVars, lineVars, sessVars, upVars, stripVars,
             sockVars, barVars, pfxVars, limVars, doVars, markVars, ctlVars,
             sigVars, twoVars>>
notReg == <<streamVars, runVars, lineVars, sessVars, upVars, stripVars,
             sockVars, barVars, pfxVars, limVars, doVars, markVars, ctlVars,
             sigVars, twoVars>>
notLine == <<streamVars, runVars, regVars, sessVars, upVars, stripVars,
              sockVars, barVars, pfxVars, limVars, doVars, markVars,
              ctlVars, sigVars, twoVars>>
notSess == <<streamVars, runVars, regVars, lineVars, upVars, stripVars,
              sockVars, barVars, pfxVars, limVars, doVars, markVars,
              ctlVars, sigVars, twoVars>>
notUp == <<streamVars, runVars, regVars, lineVars, sessVars, stripVars,
            sockVars, barVars, pfxVars, limVars, doVars, markVars, ctlVars,
            sigVars, twoVars>>
notStrip == <<streamVars, runVars, regVars, lineVars, sessVars, upVars,
               sockVars, barVars, pfxVars, limVars, doVars, markVars,
               ctlVars, sigVars, twoVars>>
notSock == <<streamVars, runVars, regVars, lineVars, sessVars, upVars,
              stripVars, barVars, pfxVars, limVars, doVars, markVars,
              ctlVars, sigVars, twoVars>>
notBar == <<streamVars, runVars, regVars, lineVars, sessVars, upVars,
             stripVars, sockVars, pfxVars, limVars, doVars, markVars,
             ctlVars, sigVars, twoVars>>
notPfx == <<streamVars, runVars, regVars, lineVars, sessVars, upVars,
             stripVars, sockVars, barVars, limVars, doVars, markVars,
             ctlVars, sigVars, twoVars>>
notLim == <<streamVars, runVars, regVars, lineVars, sessVars, upVars,
             stripVars, sockVars, barVars, pfxVars, doVars, markVars,
             ctlVars, sigVars, twoVars>>
notDo == <<streamVars, runVars, regVars, lineVars, sessVars, upVars,
            stripVars, sockVars, barVars, pfxVars, limVars, markVars,
            ctlVars, sigVars, twoVars>>
notMark == <<streamVars, runVars, regVars, lineVars, sessVars, upVars,
              stripVars, sockVars, barVars, pfxVars, limVars, doVars,
              ctlVars, sigVars, twoVars>>
notCtl == <<streamVars, runVars, regVars, lineVars, sessVars, upVars,
             stripVars, sockVars, barVars, pfxVars, limVars, doVars,
             markVars, sigVars, twoVars>>
notSig == <<streamVars, runVars, regVars, lineVars, sessVars, upVars,
             stripVars, sockVars, barVars, pfxVars, limVars, doVars,
             markVars, ctlVars, twoVars>>
notTwo == <<streamVars, runVars, regVars, lineVars, sessVars, upVars,
             stripVars, sockVars, barVars, pfxVars, limVars, doVars,
             markVars, ctlVars, sigVars>>

\* The record fmt.Printf("%s: %s\n", prefix, line) prints.
LineRecord(h, s, n) == [host |-> h, kind |-> "line", stream |-> s, n |-> n]

\* The record of an "ERROR: ..." notice of host h.
NoticeRecord(h, k) == [host |-> h, kind |-> k, stream |-> "none", n |-> 0]

Exited(h) == proc[h] \in {"exit0", "exit1", "killed"}

\* The state before a dispatch: no task, no process, nothing printed.
StreamIdle ==
    /\ ctxDone = FALSE
    /\ proc = [h \in Hosts |-> "none"]
    /\ written = [h \in Hosts |-> <<>>]
    /\ pipe = [h \in Hosts |-> [s \in Streams |-> <<>>]]
    /\ pipeClosed = [h \in Hosts |-> [s \in Streams |-> FALSE]]
    /\ reader = [h \in Hosts |-> [s \in Streams |-> "none"]]
    /\ line = [h \in Hosts |-> [s \in Streams |-> 0]]
    /\ terminal = <<>>

\* No dispatch is modelled.
StreamOff ==
    /\ dispatched = {}
    /\ task = [h \in Hosts |-> "none"]
    /\ StreamIdle

\* No registry with a freshness window is modelled.
RegOff ==
    /\ regList = <<>>
    /\ now = 0
    /\ registry = [h \in Hosts |-> FALSE]
    /\ lastUsed = [h \in Hosts |-> 0]
    /\ socketFiles = {}
    /\ call = <<>>
    /\ kind = "none"
    /\ regConnected = {}
    /\ regPc = "off"
    /\ regCommands = 0

\* No run is modelled.
RunOff ==
    /\ mode = "off"
    /\ hostList = <<>>
    /\ est = <<>>
    /\ attempt = <<>>
    /\ connections = {}
    /\ sockets = {}
    /\ mu = "free"
    /\ resultChan = <<>>
    /\ chanClosed = FALSE
    /\ completed = 0
    /\ connectedHosts = <<>>
    /\ failedConnections = <<>>
    /\ warned = <<>>
    /\ pc = "off"
    /\ runCtx = FALSE
    /\ intrPhase = "none"
    /\ bcast = [h \in Hosts |-> "none"]
    /\ commands = 0
    /\ toClose = {}
    /\ closeOrder = <<>>
    /\ closeFailed = {}
    /\ closeTargets = {}
    /\ closeAllRuns = 0
    /\ exitPath = "none"
    /\ outcome = "running"
    /\ shown = <<>>

\* No input line is modelled.
LineOff ==
    /\ linePc = "off"
    /\ lastLine = <<>>
    /\ branch = "none"
    /\ verboseFlag = FALSE
    /\ remoteRuns = 0
    /\ uploadRuns = 0

\* The parts that are not modelled in each specification.
SessOff ==
    /\ sessPc = "off"
    /\ doneChan = FALSE
    /\ inputChan = FALSE
    /\ inPc = "off"
    /\ inText = "none"
    /\ entered = 0
    /\ hostSessions = {}
    /\ shell = [h \in Hosts |-> "none"]
    /\ stdoutBuf = [h \in Hosts |-> 0]
    /\ emitted = 0
    /\ outPc = [h \in Hosts |-> "none"]
    /\ outputChan = 0
    /\ closeCalls = [h \in Hosts |-> 0]
    /\ quitSeen = FALSE
    /\ outputMutex = "free"
    /\ writers = {}

UpOff ==
    /\ upPc = "off"
    /\ upFile = "none"
    /\ upVerbose = FALSE
    /\ upConns = {}
    /\ scp = [h \in Hosts |-> "none"]
    /\ upOut = <<>>

StripOff ==
    /\ stripPc = "off"
    /\ rawLine = <<>>
    /\ cleanLine = <<>>

SockOff ==
    /\ sockHosts = <<>>
    /\ sockPath = <<>>

BarOff ==
    /\ barPc = "off"
    /\ barArgs = <<>>
    /\ barOut = <<>>

PfxOff ==
    /\ pfxPc = "off"
    /\ pfxArgs = <<>>
    /\ pfxOut = <<>>

LimOff ==
    /\ limPc = "off"
    /\ limIn = <<>>
    /\ limOut = <<>>

DoOff ==
    /\ doPc = "off"
    /\ doLine = <<>>
    /\ doPos = 0
    /\ doHosts = <<>>
    /\ doResult = <<>>

MarkOff ==
    /\ rdPc = "off"
    /\ hostText = <<>>
    /\ consumed = 0
    /\ buffer = <<>>
    /\ delivered = <<>>

CtlOff ==
    /\ ctlPc = "off"
    /\ ctlInput = <<>>
    /\ ctlOut = <<>>

SigOff ==
    /\ sigPc = "off"
    /\ dispatch = 0
    /\ ctx = <<>>
    /\ notified = {}
    /\ pending = {}
    /\ watcher = <<>>
    /\ sigTask = <<>>
    /\ hit = {}
    /\ interrupts = 0

TwoOff ==
    /\ manager = <<>>
    /\ tables = <<>>
    /\ dirExists = FALSE
    /\ sockFiles = {}
    /\ masters = {}

StreamOnly ==
    RunOff /\ RegOff /\ LineOff /\ SessOff /\ UpOff /\ StripOff /\ SockOff
    /\ BarOff /\ PfxOff /\ LimOff /\ DoOff /\ MarkOff /\ CtlOff /\ SigOff
    /\ TwoOff
RunOnly ==
    StreamOff /\ RegOff /\ LineOff /\ SessOff /\ UpOff /\ StripOff /\
    SockOff /\ BarOff /\ PfxOff /\ LimOff /\ DoOff /\ MarkOff /\ CtlOff /\
    SigOff /\ TwoOff
RegOnly ==
    StreamOff /\ RunOff /\ LineOff /\ SessOff /\ UpOff /\ StripOff /\
    SockOff /\ BarOff /\ PfxOff /\ LimOff /\ DoOff /\ MarkOff /\ CtlOff /\
    SigOff /\ TwoOff
LineOnly ==
    StreamOff /\ RunOff /\ RegOff /\ SessOff /\ UpOff /\ StripOff /\
    SockOff /\ BarOff /\ PfxOff /\ LimOff /\ DoOff /\ MarkOff /\ CtlOff /\
    SigOff /\ TwoOff
SessOnly ==
    StreamOff /\ RunOff /\ RegOff /\ LineOff /\ UpOff /\ StripOff /\
    SockOff /\ BarOff /\ PfxOff /\ LimOff /\ DoOff /\ MarkOff /\ CtlOff /\
    SigOff /\ TwoOff
UpOnly ==
    StreamOff /\ RunOff /\ RegOff /\ LineOff /\ SessOff /\ StripOff /\
    SockOff /\ BarOff /\ PfxOff /\ LimOff /\ DoOff /\ MarkOff /\ CtlOff /\
    SigOff /\ TwoOff
StripOnly ==
    StreamOff /\ RunOff /\ RegOff /\ LineOff /\ SessOff /\ UpOff /\
    SockOff /\ BarOff /\ PfxOff /\ LimOff /\ DoOff /\ MarkOff /\ CtlOff /\
    SigOff /\ TwoOff
SockOnly ==
    StreamOff /\ RunOff /\ RegOff /\ LineOff /\ SessOff /\ UpOff /\
    StripOff /\ BarOff /\ PfxOff /\ LimOff /\ DoOff /\ MarkOff /\ CtlOff
    /\ SigOff /\ TwoOff
BarOnly ==
    StreamOff /\ RunOff /\ RegOff /\ LineOff /\ SessOff /\ UpOff /\
    StripOff /\ SockOff /\ PfxOff /\ LimOff /\ DoOff /\ MarkOff /\ CtlOff
    /\ SigOff /\ TwoOff
PfxOnly ==
    StreamOff /\ RunOff /\ RegOff /\ LineOff /\ SessOff /\ UpOff /\
    StripOff /\ SockOff /\ BarOff /\ LimOff /\ DoOff /\ MarkOff /\ CtlOff
    /\ SigOff /\ TwoOff
LimOnly ==
    StreamOff /\ RunOff /\ RegOff /\ LineOff /\ SessOff /\ UpOff /\
    StripOff /\ SockOff /\ BarOff /\ PfxOff /\ DoOff /\ MarkOff /\ CtlOff
    /\ SigOff /\ TwoOff
DoOnly ==
    StreamOff /\ RunOff /\ RegOff /\ LineOff /\ SessOff /\ UpOff /\
    StripOff /\ SockOff /\ BarOff /\ PfxOff /\ LimOff /\ MarkOff /\ CtlOff
    /\ SigOff /\ TwoOff
MarkOnly ==
    StreamOff /\ RunOff /\ RegOff /\ LineOff /\ SessOff /\ UpOff /\
    StripOff /\ SockOff /\ BarOff /\ PfxOff /\ LimOff /\ DoOff /\ CtlOff
    /\ SigOff /\ TwoOff
CtlOnly ==
    StreamOff /\ RunOff /\ RegOff /\ LineOff /\ SessOff /\ UpOff /\
    StripOff /\ SockOff /\ BarOff /\ PfxOff /\ LimOff /\ DoOff /\ MarkOff
    /\ SigOff /\ TwoOff
SigOnly ==
    StreamOff /\ RunOff /\ RegOff /\ LineOff /\ SessOff /\ UpOff /\
    StripOff /\ SockOff /\ BarOff /\ PfxOff /\ LimOff /\ DoOff /\ MarkOff
    /\ CtlOff /\ TwoOff
TwoOnly ==
    StreamOff /\ RunOff /\ RegOff /\ LineOff /\ SessOff /\ UpOff /\
    StripOff /\ SockOff /\ BarOff /\ PfxOff /\ LimOff /\ DoOff /\ MarkOff
    /\ CtlOff /\ SigOff

\* executeCommandStreaming: one task per entry of cm.connections.
InitStream ==
    /\ dispatched \in (SUBSET Hosts) \ {{}}
    /\ task = [h \in Hosts |-> IF h \in dispatched THEN "spawned" ELSE "none"]
    /\ StreamIdle
    /\ StreamOnly

\* runSSHPersistentStreaming up to cmd.Start: the pipes are made and the two
\* reader goroutines are started (wg.Go) before the command is.
startReaders(h) ==
    /\ task[h] = "spawned"
    /\ task' = [task EXCEPT ![h] = "start"]
    /\ reader' = [reader EXCEPT ![h] = [s \in Streams |-> "scan"]]
    /\ UNCHANGED <<dispatched, ctxDone, proc, written, pipe, pipeClosed, line,
                   terminal>>

\* cmd.Start succeeds: the child runs.
cmdStartOk(h) ==
    /\ task[h] = "start"
    /\ ~ctxDone
    /\ task' = [task EXCEPT ![h] = "wait"]
    /\ proc' = [proc EXCEPT ![h] = "running"]
    /\ UNCHANGED <<dispatched, ctxDone, written, pipe, pipeClosed, reader,
                   line, terminal>>

\* cmd.Start fails (always when the context is already done; otherwise when
\* the ssh binary cannot be run): Start closes the pipes, the notice is
\* printed and the function returns without wg.Wait.
cmdStartFail(h) ==
    /\ task[h] = "start"
    /\ task' = [task EXCEPT ![h] = "done"]
    /\ pipeClosed' = [pipeClosed EXCEPT ![h] = [s \in Streams |-> TRUE]]
    /\ terminal' = Append(terminal, NoticeRecord(h, "startfailed"))
    /\ UNCHANGED <<dispatched, ctxDone, proc, written, pipe, reader, line>>

RECURSIVE SumLen(_, _)
SumLen(f, S) == IF S = {} THEN 0
                ELSE LET x == CHOOSE y \in S : TRUE
                     IN Len(f[x]) + SumLen(f, S \ {x})

\* The lines written so far in this dispatch, over all hosts.
TotalWritten == SumLen(written, Hosts)

\* The remote command writes its next line to one of its streams.
remoteWrite(h, s) ==
    /\ proc[h] = "running"
    /\ TotalWritten < MaxLines
    /\ written' = [written EXCEPT ![h] = Append(@, s)]
    /\ pipe' = [pipe EXCEPT ![h][s] = Append(@, Len(written[h]) + 1)]
    /\ UNCHANGED <<dispatched, ctxDone, task, proc, pipeClosed, reader, line,
                   terminal>>

\* The remote command exits, with status 0 or not.
remoteExit(h, ok) ==
    /\ proc[h] = "running"
    /\ proc' = [proc EXCEPT ![h] = IF ok THEN "exit0" ELSE "exit1"]
    /\ UNCHANGED <<dispatched, ctxDone, task, written, pipe, pipeClosed,
                   reader, line, terminal>>

\* exec.CommandContext kills the child once the context is done.
ctxKill(h) ==
    /\ ctxDone
    /\ proc[h] = "running"
    /\ proc' = [proc EXCEPT ![h] = "killed"]
    /\ UNCHANGED <<dispatched, ctxDone, task, written, pipe, pipeClosed,
                   reader, line, terminal>>

\* A scanner that hands out the newest unread line instead of the oldest.
ScanTokenNewest(p) == p[Len(p)]

\* The token scanner.Scan finds: the oldest unread line of the pipe.
ScanToken(p) == Head(p)

\* scanner.Scan of a reader goroutine: a read of a closed pipe fails, a line
\* in the pipe is taken, an empty pipe of an exited child is end-of-stream,
\* and otherwise the read blocks.
scannerScan(h, s) ==
    /\ reader[h][s] = "scan"
    /\ IF pipeClosed[h][s]
       THEN /\ reader' = [reader EXCEPT ![h][s] = "done"]
            /\ UNCHANGED <<pipe, line>>
       ELSE IF pipe[h][s] # <<>>
       THEN /\ reader' = [reader EXCEPT ![h][s] = "select"]
            /\ line' = [line EXCEPT ![h][s] = ScanToken(pipe[h][s])]
            /\ pipe' = [pipe EXCEPT ![h][s] = Tail(@)]
       ELSE /\ Exited(h)
            /\ reader' = [reader EXCEPT ![h][s] = "done"]
            /\ UNCHANGED <<pipe, line>>
    /\ UNCHANGED <<dispatched, ctxDone, task, proc, written, pipeClosed,
                   terminal>>

\* select { case <-ctx.Done(): return; default: ... } of a reader goroutine.
readerSelect(h, s) ==
    /\ reader[h][s] = "select"
    /\ reader' = [reader EXCEPT ![h][s] = IF ctxDone THEN "done" ELSE "print"]
    /\ line' = [line EXCEPT ![h][s] = IF ctxDone THEN 0 ELSE @]
    /\ UNCHANGED <<dispatched, ctxDone, task, proc, written, pipe, pipeClosed,
                   terminal>>

\* fmt.Printf("%s: %s\n", prefix, line) of a reader goroutine.
readerPrint(h, s) ==
    /\ reader[h][s] = "print"
    /\ terminal' = Append(terminal, LineRecord(h, s, line[h][s]))
    /\ reader' = [reader EXCEPT ![h][s] = "scan"]
    /\ line' = [line EXCEPT ![h][s] = 0]
    /\ UNCHANGED <<dispatched, ctxDone, task, proc, written, pipe, pipeClosed>>

\* What cmd.Wait does to the parent's pipes once the child has exited: it
\* closes them, and what was written and not yet read is gone.
WaitClosesPipes(h) ==
    /\ pipeClosed' = [pipeClosed EXCEPT ![h] = [s \in Streams |-> TRUE]]
    /\ pipe' = [pipe EXCEPT ![h] = [s \in Streams |-> <<>>]]

\* cmd.Wait returns once the child has exited; the error is printed unless
\* the context is done.
cmdWait(h) ==
    /\ task[h] = "wait"
    /\ Exited(h)
    /\ WaitClosesPipes(h)
    /\ terminal' = IF proc[h] # "exit0" /\ ~ctxDone
                   THEN Append(terminal, NoticeRecord(h, "failed"))
                   ELSE terminal
    /\ task' = [task EXCEPT ![h] = "join"]
    /\ UNCHANGED <<dispatched, ctxDone, proc, written, reader, line>>

\* wg.Wait: both reader goroutines have returned.
wgWait(h) ==
    /\ task[h] = "join"
    /\ \A s \in Streams : reader[h][s] = "done"
    /\ task' = [task EXCEPT ![h] = "done"]
    /\ UNCHANGED <<dispatched, ctxDone, proc, written, pipe, pipeClosed,
                   reader, line, terminal>>

\* The operator's interrupt while the dispatch is in flight: cancel().
cancel ==
    /\ ~ctxDone
    /\ \E h \in dispatched : task[h] # "done"
    /\ ctxDone' = TRUE
    /\ UNCHANGED <<dispatched, task, proc, written, pipe, pipeClosed, reader,
                   line, terminal>>

NextStream ==
    \/ (\E h \in Hosts : startReaders(h)) /\ UNCHANGED notStream
    \/ (\E h \in Hosts : cmdStartOk(h)) /\ UNCHANGED notStream
    \/ (\E h \in Hosts : cmdStartFail(h)) /\ UNCHANGED notStream
    \/ (\E h \in Hosts, s \in Streams : remoteWrite(h, s))
            /\ UNCHANGED notStream
    \/ (\E h \in Hosts, ok \in BOOLEAN : remoteExit(h, ok))
            /\ UNCHANGED notStream
    \/ (\E h \in Hosts : ctxKill(h)) /\ UNCHANGED notStream
    \/ (\E h \in Hosts, s \in Streams : scannerScan(h, s))
            /\ UNCHANGED notStream
    \/ (\E h \in Hosts, s \in Streams : readerSelect(h, s))
            /\ UNCHANGED notStream
    \/ (\E h \in Hosts, s \in Streams : readerPrint(h, s))
            /\ UNCHANGED notStream
    \/ (\E h \in Hosts : cmdWait(h)) /\ UNCHANGED notStream
    \/ (\E h \in Hosts : wgWait(h)) /\ UNCHANGED notStream
    \/ cancel /\ UNCHANGED notStream

SpecStream == InitStream /\ [][NextStream]_vars

\* ------------------------------------------------------ claims, part 1

\* The line numbers host h's readers have printed, in terminal order.
Relayed(h) ==
    LET recs == SelectSeq(terminal, LAMBDA r : r.host = h /\ r.kind = "line")
    IN [i \in 1..Len(recs) |-> recs[i].n]

\* The line numbers printed for stream s of host h, in terminal order.
RelayedOn(h, s) ==
    LET recs == SelectSeq(terminal,
                    LAMBDA r : r.host = h /\ r.kind = "line" /\ r.stream = s)
    IN [i \in 1..Len(recs) |-> recs[i].n]

RECURSIVE WrittenOnUpTo(_, _, _)
WrittenOnUpTo(h, s, k) ==
    IF k = 0 THEN <<>>
    ELSE IF written[h][k] = s THEN Append(WrittenOnUpTo(h, s, k - 1), k)
    ELSE WrittenOnUpTo(h, s, k - 1)

\* The line numbers host h's command wrote to stream s, in the order written.
WrittenOn(h, s) == WrittenOnUpTo(h, s, Len(written[h]))

IsPrefix(a, b) == Len(a) <= Len(b) /\ \A i \in 1..Len(a) : a[i] = b[i]

\* How often line n of host h has been printed.
RelayedCount(h, n) ==
    Cardinality({i \in 1..Len(terminal) :
        terminal[i].host = h /\ terminal[i].kind = "line" /\ terminal[i].n = n})

\* How many notices of kind k host h has on the terminal.
NoticeCount(h, k) ==
    Cardinality({i \in 1..Len(terminal) :
        terminal[i].host = h /\ terminal[i].kind = k})

AllTasksDone == \A h \in dispatched : task[h] = "done"

\* C1 (as claimed): once an uncancelled dispatch over a non-empty set of
\* connected hosts has returned, every host of the set has its one outcome
\* on the terminal (each line its command wrote exactly once, and exactly
\* one failure notice if and only if the command failed or could not be
\* started) and no host outside the set has any record.  "echo x" on h1
\* and h2 is the case of one stdout line and exit status 0 on each.
C1_OneOutcomePerHost ==
    (AllTasksDone /\ ~ctxDone) =>
        \A h \in Hosts :
            IF h \in dispatched
            THEN /\ \A n \in 1..Len(written[h]) : RelayedCount(h, n) = 1
                 /\ NoticeCount(h, "failed") =
                        (IF proc[h] = "exit1" THEN 1 ELSE 0)
                 /\ NoticeCount(h, "startfailed") =
                        (IF proc[h] = "none" THEN 1 ELSE 0)
            ELSE \A i \in 1..Len(terminal) : terminal[i].host # h

C3_NoLineLost ==
    \A h \in dispatched :
        (task[h] = "done" /\ ~ctxDone /\ proc[h] # "none") =>
            /\ Exited(h)
            /\ \A s \in Streams : reader[h][s] = "done"
            /\ \A n \in 1..Len(written[h]) : RelayedCount(h, n) = 1

\* The error notices a task can print.
ErrorKinds == {"failed", "startfailed"}

\* A step taken while the context is cancelled prints no error notice.
NoErrorWhileCancelled ==
    ctxDone =>
        \A h \in Hosts, k \in ErrorKinds :
            NoticeCount(h, k)' = NoticeCount(h, k)

\* A command that failed on its host while the context was never
\* cancelled has its command-failed notice once Wait has returned.
GenuineFailureReported ==
    \A h \in Hosts :
        (task[h] \in {"join", "done"} /\ proc[h] = "exit1" /\ ~ctxDone) =>
            NoticeCount(h, "failed") = 1

\* C13: a task whose command ends because the context was cancelled, before
\* the command was started or while it ran, never prints a command-failed
\* or failed-to-start notice; a remote failure with the context not
\* cancelled does print one.
C13_CancelIsNoError ==
    []GenuineFailureReported /\ [][NoErrorWhileCancelled]_vars

\* A step taken while the context is cancelled prints no line of any host.
NoLineWhileCancelled == ctxDone => \A h \in Hosts : Relayed(h)' = Relayed(h)

\* C14 (the part of it that is about the lines): once the context of a
\* dispatch is cancelled, no task of the dispatch relays a further line.
C14_NoLineAfterCancel == [][NoLineWhileCancelled]_vars

\* A step that is not the operator's cancel leaves the context as it is.
OnlyCancelCancels == ctxDone' # ctxDone => (~ctxDone /\ cancel)

\* C15: a command that fails on one host is reported as one failure notice
\* of that host and never cancels the context: in a dispatch that was
\* never cancelled and has returned, the failed host has exactly one
\* command-failed notice and every other host's task has relayed each of
\* its lines exactly once.
C15_FailureIsLocal ==
    /\ [][OnlyCancelCancels]_vars
    /\ [](\A h \in dispatched :
            (AllTasksDone /\ ~ctxDone /\ proc[h] = "exit1") =>
                /\ NoticeCount(h, "failed") = 1
                /\ NoticeCount(h, "startfailed") = 0
                /\ \A g \in dispatched \ {h} :
                      \A n \in 1..Len(written[g]) : RelayedCount(g, n) = 1)

\* C20: the dispatch returns only after every producer task it spawned has
\* finished: when every per-host task has returned, each of its two reader
\* goroutines has returned too, on every path, a failed command start
\* included.
C20_AllProducersJoined ==
    AllTasksDone =>
        \A h \in dispatched, s \in Streams : reader[h][s] = "done"

\* ========================================================================
\* Part 2: one run over the connection registry
\* ========================================================================

\* The host lists the command line can give: one to MaxHostList hosts.
HostLists == UNION {[1..n -> Hosts] : n \in 1..MaxHostList}

Indices == 1..Len(hostList)

\* The hosts in a list.
Range(q) == {q[i] : i \in 1..Len(q)}

\* InteractiveMode and ExecuteCommand after NewSSHConnectionManager and the
\* start of one goroutine per host: every goroutine is in establishConnection.
InitRun ==
    /\ mode \in {"oneshot", "interactive"}
    /\ hostList \in HostLists
    /\ est = [i \in 1..Len(hostList) |-> "connecting"]
    /\ attempt = [i \in 1..Len(hostList) |-> "pending"]
    /\ connections = {}
    /\ sockets = {}
    /\ mu = "free"
    /\ resultChan = <<>>
    /\ chanClosed = FALSE
    /\ completed = 0
    /\ connectedHosts = <<>>
    /\ failedConnections = <<>>
    /\ warned = <<>>
    /\ pc = IF mode = "interactive" THEN "collect" ELSE "wait"
    /\ runCtx = FALSE
    /\ intrPhase = "none"
    /\ bcast = [h \in Hosts |-> "none"]
    /\ commands = 0
    /\ toClose = {}
    /\ closeOrder = <<>>
    /\ closeFailed = {}
    /\ closeTargets = {}
    /\ closeAllRuns = 0
    /\ exitPath = "none"
    /\ outcome = "running"
    /\ shown = <<>>
    /\ RunOnly

\* The process has not ended: its goroutines still run.
Alive == pc # "exited"

\* establishConnection: "ssh -M -S socketPath ... host true" returns.  On
\* success the master has made the control socket; on failure the error is
\* returned (one-shot mode prints it and the goroutine ends; interactive
\* mode sends it on resultChan).
sshMaster(i, ok) ==
    /\ Alive
    /\ est[i] = "connecting"
    /\ attempt' = [attempt EXCEPT ![i] = IF ok THEN "ok" ELSE "failed"]
    /\ sockets' = IF ok THEN sockets \cup {hostList[i]} ELSE sockets
    /\ est' = [est EXCEPT ![i] =
                 IF ok THEN "store"
                 ELSE IF mode = "interactive" THEN "send" ELSE "done"]
    /\ UNCHANGED <<shown, mode, hostList, connections, mu, resultChan, chanClosed,
                   completed, connectedHosts, failedConnections, warned, pc,
                   runCtx, intrPhase, bcast, commands, toClose, closeOrder,
                   closeFailed, closeTargets, closeAllRuns, exitPath, outcome>>

\* establishConnection: cm.mu.Lock(); cm.connections[host] = ...; Unlock().
storeConnection(i) ==
    /\ Alive
    /\ est[i] = "store"
    /\ mu = "free"
    /\ connections' = connections \cup {hostList[i]}
    /\ est' = [est EXCEPT ![i] = IF mode = "interactive" THEN "send" ELSE "run"]
    /\ UNCHANGED <<shown, mode, hostList, attempt, sockets, mu, resultChan,
                   chanClosed, completed, connectedHosts, failedConnections,
                   warned, pc, runCtx, intrPhase, bcast, commands, toClose,
                   closeOrder, closeFailed, closeTargets, closeAllRuns,
                   exitPath, outcome>>

\* InteractiveMode's goroutine: resultChan <- connectionResult{host, err}.
\* The channel has room for len(hosts) results, so the send never blocks.
sendResult(i) ==
    /\ Alive
    /\ est[i] = "send"
    /\ resultChan' = Append(resultChan,
                        [host |-> hostList[i], ok |-> attempt[i] = "ok"])
    /\ est' = [est EXCEPT ![i] = "done"]
    /\ UNCHANGED <<shown, mode, hostList, attempt, connections, sockets, mu,
                   chanClosed, completed, connectedHosts, failedConnections,
                   warned, pc, runCtx, intrPhase, bcast, commands, toClose,
                   closeOrder, closeFailed, closeTargets, closeAllRuns,
                   exitPath, outcome>>

\* ExecuteCommand's goroutine: runSSHStreaming returns (the command ended,
\* or it was cancelled); Part 1 models what happens inside.
runStreamingReturns(i) ==
    /\ Alive
    /\ est[i] = "run"
    /\ est' = [est EXCEPT ![i] = "done"]
    /\ UNCHANGED <<shown, mode, hostList, attempt, connections, sockets, mu,
                   resultChan, chanClosed, completed, connectedHosts,
                   failedConnections, warned, pc, runCtx, intrPhase, bcast,
                   commands, toClose, closeOrder, closeFailed, closeTargets,
                   closeAllRuns, exitPath, outcome>>

\* wg.Wait() has returned for the per-host goroutines.
AllReturned == \A i \in Indices : est[i] = "done"

\* go func() { wg.Wait(); close(resultChan) }().
closeResultChan ==
    /\ Alive
    /\ mode = "interactive"
    /\ ~chanClosed
    /\ AllReturned
    /\ chanClosed' = TRUE
    /\ UNCHANGED <<shown, mode, hostList, est, attempt, connections, sockets, mu,
                   resultChan, completed, connectedHosts, failedConnections,
                   warned, pc, runCtx, intrPhase, bcast, commands, toClose,
                   closeOrder, closeFailed, closeTargets, closeAllRuns,
                   exitPath, outcome>>

\* A classification that takes every result for a success.
ClassifyConnectedAlways(list, r) == Append(list, r.host)

\* connectedHosts after a result has been received.
ClassifyConnected(list, r) == IF r.ok THEN Append(list, r.host) ELSE list

\* failedConnections after a result has been received.
ClassifyFailed(list, r) == IF r.ok THEN list ELSE Append(list, r.host)

\* A counter that is left as it is.
CountedNot(c) == c

\* completed++.
Counted(c) == c + 1

\* for result := range resultChan { completed++; classify;
\* printProgressBar(completed, len(hosts), 20) }.
receiveResult ==
    /\ pc = "collect"
    /\ resultChan # <<>>
    /\ completed' = Counted(completed)
    /\ connectedHosts' = ClassifyConnected(connectedHosts, Head(resultChan))
    /\ failedConnections' = ClassifyFailed(failedConnections, Head(resultChan))
    /\ resultChan' = Tail(resultChan)
    /\ shown' = Append(shown, <<completed', Len(hostList)>>)
    /\ UNCHANGED <<mode, hostList, est, attempt, connections, sockets, mu,
                   chanClosed, warned, pc, runCtx, intrPhase, bcast, commands,
                   toClose, closeOrder, closeFailed, closeTargets,
                   closeAllRuns, exitPath, outcome>>

\* The position of the main goroutine after a return statement: the
\* deferred closeAllConnections runs next.
Return(path) == "defer"

\* The range over resultChan ends (closed and drained): the failures are
\* printed; with no connected host the error is printed and the function
\* returns; otherwise readline is set up, which may fail.
afterCollect(rlOk) ==
    /\ pc = "collect"
    /\ chanClosed
    /\ resultChan = <<>>
    /\ warned' = failedConnections
    /\ IF Len(connectedHosts) = 0
       THEN /\ pc' = Return("nohosts")
            /\ exitPath' = "nohosts"
            /\ outcome' = "fatal"
       ELSE IF rlOk
       THEN /\ pc' = "readline"
            /\ UNCHANGED <<shown, exitPath, outcome>>
       ELSE /\ pc' = Return("rlfail")
            /\ exitPath' = "rlfail"
            /\ outcome' = "ok"
    /\ UNCHANGED <<shown, mode, hostList, est, attempt, connections, sockets, mu,
                   resultChan, chanClosed, completed, connectedHosts,
                   failedConnections, runCtx, intrPhase, bcast, commands,
                   toClose, closeOrder, closeFailed, closeTargets,
                   closeAllRuns>>

\* rl.Readline() returns an error: end of input, or the operator's Ctrl+C at
\* the prompt (readline reports it as an error); the function returns.
readlineError(why) ==
    /\ pc = "readline"
    /\ pc' = Return(why)
    /\ exitPath' = why
    /\ outcome' = "ok"
    /\ UNCHANGED <<shown, mode, hostList, est, attempt, connections, sockets, mu,
                   resultChan, chanClosed, completed, connectedHosts,
                   failedConnections, warned, runCtx, intrPhase, bcast,
                   commands, toClose, closeOrder, closeFailed, closeTargets,
                   closeAllRuns>>

\* The line is ":exit" or ":quit": the function returns.
quitLine ==
    /\ pc = "readline"
    /\ pc' = Return("quit")
    /\ exitPath' = "quit"
    /\ outcome' = "ok"
    /\ UNCHANGED <<shown, mode, hostList, est, attempt, connections, sockets, mu,
                   resultChan, chanClosed, completed, connectedHosts,
                   failedConnections, warned, runCtx, intrPhase, bcast,
                   commands, toClose, closeOrder, closeFailed, closeTargets,
                   closeAllRuns>>

\* The hosts a broadcast starts a task for: the entries of cm.connections.
BroadcastTargets == connections

\* Any other line: a fresh context, signal.Notify, and
\* executeCommandStreaming starts one task per entry of cm.connections.
commandLine ==
    /\ pc = "readline"
    /\ commands < MaxBroadcasts
    /\ commands' = commands + 1
    /\ runCtx' = FALSE
    /\ bcast' = [h \in Hosts |->
                   IF h \in BroadcastTargets THEN "running" ELSE "none"]
    /\ pc' = "broadcast"
    /\ UNCHANGED <<shown, mode, hostList, est, attempt, connections, sockets, mu,
                   resultChan, chanClosed, completed, connectedHosts,
                   failedConnections, warned, intrPhase, toClose, closeOrder,
                   closeFailed, closeTargets, closeAllRuns, exitPath, outcome>>

\* A task that closes its host's session when it was cancelled.
TableAfterTaskClosing(table, h, cancelled) ==
    IF cancelled THEN table \ {h} ELSE table

\* cm.connections after the task of host h has returned: the task runs
\* "ssh -S socketPath host command" and never touches the table,
\* cancelled or not.
TableAfterTask(table, h, cancelled) == table

\* A task of the broadcast returns: its command ended, or the context was
\* cancelled and the ssh client was killed.
broadcastTaskReturns(h) ==
    /\ pc = "broadcast"
    /\ bcast[h] = "running"
    /\ bcast' = [bcast EXCEPT ![h] = "done"]
    /\ connections' = TableAfterTask(connections, h, runCtx)
    /\ UNCHANGED <<shown, mode, hostList, est, attempt, sockets, mu,
                   resultChan, chanClosed, completed, connectedHosts,
                   failedConnections, warned, pc, runCtx, intrPhase, commands,
                   toClose, closeOrder, closeFailed, closeTargets,
                   closeAllRuns, exitPath, outcome>>

\* A loop that takes an interrupted command for a request to quit.
AfterBroadcastQuitting(cancelled) == IF cancelled THEN "defer" ELSE "readline"

\* Where the loop goes on after executeCommandStreaming has returned: the
\* switch ends and the for loop reads the next line, cancelled or not.
AfterBroadcast(cancelled) == "readline"

\* executeCommandStreaming returns (wg.Wait); cancel(); signal.Stop: the
\* loop reads the next line.
broadcastReturns ==
    /\ pc = "broadcast"
    /\ \A h \in Hosts : bcast[h] # "running"
    /\ bcast' = [h \in Hosts |-> "none"]
    /\ pc' = AfterBroadcast(runCtx)
    /\ UNCHANGED <<shown, mode, hostList, est, attempt, connections, sockets, mu,
                   resultChan, chanClosed, completed, connectedHosts,
                   failedConnections, warned, runCtx, intrPhase, commands,
                   toClose, closeOrder, closeFailed, closeTargets,
                   closeAllRuns, exitPath, outcome>>

\* The interrupt signal while a handler is installed (during a broadcast,
\* and during all of ExecuteCommand): the watcher goroutine prints the
\* notice and cancels the context.  establishConnection runs its ssh under
\* context.Background and is not cancelled.
interrupt ==
    /\ \/ pc = "broadcast"
       \/ pc = "wait"
    /\ ~runCtx
    /\ runCtx' = TRUE
    /\ intrPhase' = IF \E i \in Indices : est[i] \in {"connecting", "store"}
                    THEN "establishing"
                    ELSE "running"
    /\ UNCHANGED <<shown, mode, hostList, est, attempt, connections, sockets, mu,
                   resultChan, chanClosed, completed, connectedHosts,
                   failedConnections, warned, pc, bcast, commands, toClose,
                   closeOrder, closeFailed, closeTargets, closeAllRuns,
                   exitPath, outcome>>

\* The interrupt signal while InteractiveMode connects: no handler is
\* installed before the first command line (signal.Notify is called inside
\* the loop only), so the Go runtime ends the process at once and no
\* deferred call runs.  The masters already started with "ssh -f" and
\* their sockets stay behind.
interruptWhileConnecting ==
    /\ mode = "interactive"
    /\ pc = "collect"
    /\ pc' = "exited"
    /\ exitPath' = "sigint"
    /\ outcome' = "killed"
    /\ UNCHANGED <<shown, mode, hostList, est, attempt, connections, sockets, mu,
                   resultChan, chanClosed, completed, connectedHosts,
                   failedConnections, warned, runCtx, intrPhase, bcast,
                   commands, toClose, closeOrder, closeFailed, closeTargets,
                   closeAllRuns>>

\* ExecuteCommand: wg.Wait() returns and the function ends.
oneShotReturns ==
    /\ pc = "wait"
    /\ AllReturned
    /\ pc' = Return("normal")
    /\ exitPath' = "normal"
    /\ outcome' = "ok"
    /\ UNCHANGED <<shown, mode, hostList, est, attempt, connections, sockets, mu,
                   resultChan, chanClosed, completed, connectedHosts,
                   failedConnections, warned, runCtx, intrPhase, bcast,
                   commands, toClose, closeOrder, closeFailed, closeTargets,
                   closeAllRuns>>

\* The deferred cleanupAllConnections begins: cm.mu.Lock() and the range
\* over cm.connections.
closeAllBegin ==
    /\ pc = "defer"
    /\ mu = "free"
    /\ mu' = "closeAll"
    /\ toClose' = connections
    /\ closeTargets' = connections
    /\ closeAllRuns' = closeAllRuns + 1
    /\ pc' = "closing"
    /\ UNCHANGED <<shown, mode, hostList, est, attempt, connections, sockets,
                   resultChan, chanClosed, completed, connectedHosts,
                   failedConnections, warned, runCtx, intrPhase, bcast,
                   commands, closeOrder, closeFailed, exitPath, outcome>>

\* A loop over the sessions that gives up at the first close that fails.
RestAfterStopOnError(rest, h, ok) == IF ok THEN rest \ {h} ELSE {}

\* The keys the range still has to visit after cleanupConnection(h): the
\* result of "ssh -O exit" is discarded, so the loop goes on either way.
RestAfter(rest, h, ok) == rest \ {h}

\* A cleanup that leaves the entry in the table.
TableWithoutDelete(table, h) == table

\* delete(cm.connections, h).
TableAfterDelete(table, h) == table \ {h}

\* cleanupConnection(h): "ssh -S socketPath -O exit h" (which may fail),
\* os.Remove(socketPath), delete(cm.connections, h).
cleanupConnection(h, ok) ==
    /\ pc = "closing"
    /\ h \in toClose
    /\ toClose' = RestAfter(toClose, h, ok)
    /\ closeOrder' = Append(closeOrder, h)
    /\ closeFailed' = IF ok THEN closeFailed ELSE closeFailed \cup {h}
    /\ sockets' = sockets \ {h}
    /\ connections' = TableAfterDelete(connections, h)
    /\ UNCHANGED <<shown, mode, hostList, est, attempt, mu, resultChan, chanClosed,
                   completed, connectedHosts, failedConnections, warned, pc,
                   runCtx, intrPhase, bcast, commands, closeTargets,
                   closeAllRuns, exitPath, outcome>>

\* The range is over: os.RemoveAll(cm.socketDir), cm.mu.Unlock(), and the
\* function that deferred closeAll has returned.
closeAllEnd ==
    /\ pc = "closing"
    /\ toClose = {}
    /\ sockets' = {}
    /\ mu' = "free"
    /\ pc' = "exited"
    /\ UNCHANGED <<shown, mode, hostList, est, attempt, connections, resultChan,
                   chanClosed, completed, connectedHosts, failedConnections,
                   warned, runCtx, intrPhase, bcast, commands, toClose,
                   closeOrder, closeFailed, closeTargets, closeAllRuns,
                   exitPath, outcome>>

NextRun ==
    \/ (\E i \in Indices, ok \in BOOLEAN : sshMaster(i, ok))
            /\ UNCHANGED notRun
    \/ (\E i \in Indices : storeConnection(i))
            /\ UNCHANGED notRun
    \/ (\E i \in Indices : sendResult(i)) /\ UNCHANGED notRun
    \/ (\E i \in Indices : runStreamingReturns(i))
            /\ UNCHANGED notRun
    \/ closeResultChan /\ UNCHANGED notRun
    \/ receiveResult /\ UNCHANGED notRun
    \/ (\E rlOk \in BOOLEAN : afterCollect(rlOk))
            /\ UNCHANGED notRun
    \/ (\E why \in {"eof", "interrupt"} : readlineError(why))
            /\ UNCHANGED notRun
    \/ quitLine /\ UNCHANGED notRun
    \/ commandLine /\ UNCHANGED notRun
    \/ (\E h \in Hosts : broadcastTaskReturns(h))
            /\ UNCHANGED notRun
    \/ broadcastReturns /\ UNCHANGED notRun
    \/ interrupt /\ UNCHANGED notRun
    \/ interruptWhileConnecting /\ UNCHANGED notRun
    \/ oneShotReturns /\ UNCHANGED notRun
    \/ closeAllBegin /\ UNCHANGED notRun
    \/ (\E h \in Hosts, ok \in BOOLEAN : cleanupConnection(h, ok))
            /\ UNCHANGED notRun
    \/ closeAllEnd /\ UNCHANGED notRun

SpecRun == InitRun /\ [][NextRun]_vars

\* The tasks of a cancelled broadcast return (exec.CommandContext kills
\* their ssh client), and the main goroutine goes on when wg.Wait lets it.
FairRun ==
    /\ WF_vars(\E h \in Hosts :
                  runCtx /\ broadcastTaskReturns(h)
                         /\ UNCHANGED notRun)
    /\ WF_vars(broadcastReturns /\ UNCHANGED notRun)

SpecRunFair == InitRun /\ [][NextRun]_vars /\ FairRun

\* ------------------------------------------------------------------------
\* Claims about a run
\* ------------------------------------------------------------------------

\* How often host h occurs in the list q.
Occurrences(q, h) == Cardinality({i \in 1..Len(q) : q[i] = h})

\* How many attempts for host h ended with result r.
Attempts(h, r) ==
    Cardinality({i \in Indices : hostList[i] = h /\ attempt[i] = r})

\* The connection phase of InteractiveMode has run to its end.
PhaseOver == mode = "interactive" /\ pc # "collect" /\ exitPath # "sigint"

\* C4: after the parallel connection phase every entry of the host list has
\* been classified exactly once: the connected list holds exactly the
\* hosts whose attempt succeeded, the failed list those whose attempt
\* failed, completed equals the number of hosts, the failed list is what
\* was reported, and a broadcast starts a task for exactly the connected
\* hosts.
C4_ClassifiedOnce ==
    PhaseOver =>
        /\ completed = Len(hostList)
        /\ Len(connectedHosts) + Len(failedConnections) = Len(hostList)
        /\ \A h \in Hosts :
              /\ Occurrences(connectedHosts, h) = Attempts(h, "ok")
              /\ Occurrences(failedConnections, h) = Attempts(h, "failed")
        /\ warned = failedConnections
        /\ \A h \in Hosts : bcast[h] # "none" => h \in Range(connectedHosts)
        /\ pc = "broadcast" =>
              {h \in Hosts : bcast[h] # "none"} = Range(connectedHosts)

\* C4 witness: one host connected, another failed, and a command was
\* broadcast.
C4_Witness ==
    /\ pc = "broadcast"
    /\ Len(connectedHosts) = 1
    /\ Len(failedConnections) = 1
    /\ warned = failedConnections
    /\ \E h \in Hosts : bcast[h] = "done"

\* C5: a run that ended by itself is fatal if and only if no host could be
\* connected, in one-shot mode and in interactive mode.
C5_FatalIffNoHost ==
    (pc = "exited" /\ exitPath # "sigint") =>
        (outcome = "fatal" <=> \A i \in Indices : attempt[i] = "failed")

\* C8: after closeAll has returned no control socket remains and the
\* connection table is empty.
C8_NothingLeft ==
    (pc = "exited" /\ closeAllRuns >= 1) =>
        /\ sockets = {}
        /\ connections = {}

\* C8 witness: a one-shot dispatch over a host that connects and a host
\* that never connects, interrupted while tasks were still establishing,
\* has closed a non-empty registry.
C8_Witness ==
    /\ pc = "exited"
    /\ mode = "oneshot"
    /\ intrPhase = "establishing"
    /\ \E i \in Indices : attempt[i] = "failed"
    /\ \E i \in Indices : attempt[i] = "ok"
    /\ closeTargets # {}
    /\ sockets = {}

\* C9: closeAll has been executed on every path that ends a run.
C9_CloseAllOnEveryExit == pc = "exited" => closeAllRuns >= 1

\* C10: closeAll attempts the close of every session of the registry even
\* when some closes fail, each exactly once, and a failed close does not
\* change the outcome of the run.
C10_EveryCloseAttempted ==
    /\ pc = "closing" => toClose \cup Range(closeOrder) = closeTargets
    /\ (pc = "exited" /\ closeAllRuns >= 1) =>
          /\ Range(closeOrder) = closeTargets
          /\ Len(closeOrder) = Cardinality(closeTargets)
          /\ closeFailed # {} => outcome = "ok"

\* C10 witness: closeAll has ended after the first of two closes failed.
C10_Witness ==
    /\ pc = "exited"
    /\ Len(closeOrder) = 2
    /\ closeOrder[1] \in closeFailed
    /\ closeOrder[2] \notin closeFailed

\* C11: cancelling an in-flight broadcast leaves the registry unchanged.
\* From the interrupt on, while the loop goes on, the table and the socket
\* files are those of the end of the connection phase, nothing has been
\* closed, no connection is being established, and a later command runs
\* over exactly the sessions of the table.
C11_CancelKeepsRegistry ==
    (mode = "interactive" /\ intrPhase # "none"
        /\ pc \in {"broadcast", "readline"}) =>
        /\ connections = Range(connectedHosts)
        /\ sockets = connections
        /\ closeAllRuns = 0
        /\ closeOrder = <<>>
        /\ AllReturned
        /\ pc = "broadcast" =>
              {h \in Hosts : bcast[h] # "none"} = connections

\* C11 witness: the first broadcast was cancelled and the second command
\* has run to its end on both hosts.
C11_Witness ==
    /\ pc = "broadcast"
    /\ commands = 2
    /\ intrPhase = "running"
    /\ ~runCtx
    /\ connections = Hosts
    /\ \A h \in Hosts : bcast[h] = "done"

\* A step taken while a broadcast executes leaves the loop in the
\* broadcast or takes it back to reading the next line.
BroadcastStaysInLoop == pc = "broadcast" => pc' \in {"broadcast", "readline"}

\* C12: an interrupt received while a broadcast executes cancels the
\* broadcast's context and prints the interrupted notice; the loop then
\* returns to reading the next line, and never goes from the broadcast to
\* closing down.
C12_InterruptReturnsToPrompt ==
    /\ [](pc = "broadcast" /\ runCtx => intrPhase = "running")
    /\ [][BroadcastStaysInLoop]_vars
    /\ (pc = "broadcast" /\ runCtx) ~> (pc = "readline" /\ runCtx)

\* C12 witness: the loop is back at the prompt after an interrupted
\* broadcast, and nothing has been closed.
C12_Witness ==
    /\ pc = "readline"
    /\ runCtx
    /\ intrPhase = "running"
    /\ commands = 1
    /\ closeAllRuns = 0
    /\ connections # {}

\* An ssh subprocess runs in this step: "ssh -M" of establishConnection or
\* "ssh -O exit" of cleanupConnection.
RunsSubprocess == attempt' # attempt \/ closeOrder' # closeOrder

\* The step that runs an ssh subprocess is taken with cm.mu free.
SubprocessWithoutLock == RunsSubprocess => mu = "free"

\* C23: the registry lock is never held while a blocking external call, an
\* ssh subprocess that opens or closes a connection, is running.
C23_NoLockAcrossSubprocess == [][SubprocessWithoutLock]_vars

\* The connection phase of InteractiveMode has ended and the run goes on.
ConnectionPhaseOver ==
    mode = "interactive" /\ pc # "collect" /\ exitPath # "sigint"

\* Every attempt has finished and its goroutine has sent its result.
AllAttemptsFinished ==
    \A i \in Indices : attempt[i] # "pending" /\ est[i] = "done"

\* C31: during connection establishment the progress reporter is invoked
\* once per host result (success or failure) with completed counts
\* 1, 2, ..., N in increasing order, so N/N is shown exactly once and only
\* after all N attempts have finished; the reporter never influences which
\* hosts are used.
C31_ProgressOncePerResult ==
    /\ Len(shown) = Len(connectedHosts) + Len(failedConnections)
    /\ \A k \in 1..Len(shown) : shown[k] = <<k, Len(hostList)>>
    /\ (\E k \in 1..Len(shown) : shown[k][1] = Len(hostList))
           => AllAttemptsFinished
    /\ ConnectionPhaseOver =>
           /\ Len(shown) = Len(hostList)
           /\ Range(connectedHosts) =
                  {hostList[i] : i \in {j \in Indices : attempt[j] = "ok"}}

\* Two hosts, one connected and one failed, and the bar shown as 1/2 and
\* then 2/2.
C31_Witness ==
    /\ ConnectionPhaseOver
    /\ shown = << <<1, 2>>, <<2, 2>> >>
    /\ Len(connectedHosts) = 1
    /\ Len(failedConnections) = 1

\* InteractiveMode is in its loop: at the prompt or in a broadcast.
InSession == mode = "interactive" /\ pc \in {"readline", "broadcast"}

\* C37: after the connection phase and for the rest of the interactive
\* session, the set of hosts listed by ':hosts' and counted in the prompt
\* equals the key set of the registry's connection table that broadcasts
\* and uploads iterate over.
C37_ListedHostsAreTable ==
    InSession =>
        /\ Range(connectedHosts) = connections
        /\ Len(connectedHosts) = Cardinality(connections)

\* ========================================================================
\* Part 3: the registry with the freshness window
\* ========================================================================

RegIndices == 1..Len(regList)

\* A call that has not looked at the registry yet.
NewCall ==
    [pc |-> "check", had |-> FALSE, elapsed |-> 0, opens |-> 0,
     cleaned |-> FALSE, tornDown |-> FALSE, recorded |-> FALSE,
     err |-> FALSE]

\* No call in flight.
NoCall == [NewCall EXCEPT !.pc = "idle"]

\* InteractiveMode after NewSSHConnectionManager and the start of one
\* goroutine per host, each about to call establishConnection.
InitReg ==
    /\ regList \in HostLists
    /\ now = 0
    /\ registry = [h \in Hosts |-> FALSE]
    /\ lastUsed = [h \in Hosts |-> 0]
    /\ socketFiles = {}
    /\ call = [i \in 1..Len(regList) |-> NewCall]
    /\ kind = "connect"
    /\ regConnected = {}
    /\ regPc = "wave"
    /\ regCommands = 0
    /\ RegOnly

\* A freshness test that takes a session used exactly FreshWindow minutes
\* ago for fresh.
IsFreshInclusive(h) == now - lastUsed[h] <= FreshWindow

\* time.Since(conn.lastUsed) < 5*time.Minute.
IsFresh(h) == now - lastUsed[h] < FreshWindow

\* Where a call goes on when establishConnection has returned nil: the
\* goroutine of the connection phase is done, RunSSHPersistent runs the
\* command.
AfterEstablish == IF kind = "connect" THEN "done" ELSE "run"

\* establishConnection, the test of the registry: a connected session that
\* is fresh gets lastUsed = time.Now() and the call returns nil; a stale
\* one is cleaned up next; with no session the call connects next.  The
\* lock of cm.mu is commented out.
checkRegistry(i) ==
    LET h == regList[i] IN
    /\ regPc = "wave"
    /\ call[i].pc = "check"
    /\ IF registry[h] /\ IsFresh(h)
       THEN /\ lastUsed' = [lastUsed EXCEPT ![h] = now]
            /\ call' = [call EXCEPT ![i] =
                          [@ EXCEPT !.pc = AfterEstablish,
                                    !.had = TRUE,
                                    !.elapsed = now - lastUsed[h]]]
       ELSE /\ lastUsed' = lastUsed
            /\ call' = [call EXCEPT ![i] =
                          [@ EXCEPT !.pc = IF registry[h] THEN "cleanup"
                                           ELSE "connect",
                                    !.had = registry[h],
                                    !.elapsed = IF registry[h]
                                                THEN now - lastUsed[h]
                                                ELSE 0]]
    /\ UNCHANGED <<regList, now, registry, socketFiles, kind,
                   regConnected, regPc, regCommands>>

\* cleanupConnection(host) called by establishConnection for a stale
\* session: if the registry still holds a session, "ssh -O exit",
\* os.Remove(socketPath) and delete(cm.connections, host).
cleanupStale(i) ==
    LET h == regList[i] IN
    /\ regPc = "wave"
    /\ call[i].pc = "cleanup"
    /\ socketFiles' = IF registry[h] THEN socketFiles \ {h} ELSE socketFiles
    /\ registry' = [registry EXCEPT ![h] = FALSE]
    /\ call' = [call EXCEPT ![i] =
                  [@ EXCEPT !.pc = "connect",
                            !.cleaned = registry[h],
                            !.tornDown = ~registry'[h]]]
    /\ UNCHANGED <<regList, now, lastUsed, kind, regConnected, regPc,
                   regCommands>>

\* establishConnection: "ssh -M -S socketPath ... -f host true" returns.
\* On success the master has made the control socket; on failure the call
\* returns the error.
connectMaster(i, ok) ==
    LET h == regList[i] IN
    /\ regPc = "wave"
    /\ call[i].pc = "connect"
    /\ socketFiles' = IF ok THEN socketFiles \cup {h} ELSE socketFiles
    /\ call' = [call EXCEPT ![i] =
                  [@ EXCEPT !.pc = IF ok THEN "store" ELSE "done",
                            !.opens = @ + 1,
                            !.err = ~ok]]
    /\ UNCHANGED <<regList, now, registry, lastUsed, kind, regConnected,
                   regPc, regCommands>>

\* establishConnection: cm.connections[host] = &SSHConnection{connected:
\* true, lastUsed: time.Now()}; return nil.
storeSession(i) ==
    LET h == regList[i] IN
    /\ regPc = "wave"
    /\ call[i].pc = "store"
    /\ registry' = [registry EXCEPT ![h] = TRUE]
    /\ lastUsed' = [lastUsed EXCEPT ![h] = now]
    /\ call' = [call EXCEPT ![i] =
                  [@ EXCEPT !.pc = AfterEstablish,
                            !.recorded = registry'[h]
                                         /\ lastUsed'[h] = now]]
    /\ UNCHANGED <<regList, now, socketFiles, kind, regConnected,
                   regPc, regCommands>>

\* RunSSHPersistent after establishConnection: the command runs over the
\* control socket, then lastUsed of the session, if the registry holds
\* one, is set to time.Now() under cm.mu.
runAndTouch(i) ==
    LET h == regList[i] IN
    /\ regPc = "wave"
    /\ call[i].pc = "run"
    /\ lastUsed' = IF registry[h] THEN [lastUsed EXCEPT ![h] = now]
                   ELSE lastUsed
    /\ call' = [call EXCEPT ![i] = [@ EXCEPT !.pc = "done"]]
    /\ UNCHANGED <<regList, now, registry, socketFiles, kind,
                   regConnected, regPc, regCommands>>

\* Every goroutine started for the calls in flight has returned.
WaveOver == \A i \in RegIndices : call[i].pc \in {"idle", "done"}

\* The indices whose goroutine of the connection phase got no error: the
\* entries of connectedHosts.
ConnectedIndices == {i \in RegIndices : call[i].pc = "done" /\ ~call[i].err}

\* wg.Wait() returns: after the connection phase the results have been
\* collected into connectedHosts, and with no connected host the function
\* returns; after a command ExecuteCommandPersistent returns.
waveEnds ==
    /\ regPc = "wave"
    /\ WaveOver
    /\ regConnected' = IF kind = "connect" THEN ConnectedIndices
                       ELSE regConnected
    /\ regPc' = IF regConnected' = {} THEN "nohosts" ELSE "loop"
    /\ UNCHANGED <<regList, now, registry, lastUsed, socketFiles,
                   call, kind, regCommands>>

\* A command line: ExecuteCommandPersistent starts RunSSHPersistent for
\* every entry of connectedHosts.
commandWave ==
    /\ regPc = "loop"
    /\ regCommands < MaxCommands
    /\ regCommands' = regCommands + 1
    /\ kind' = "command"
    /\ call' = [i \in RegIndices |->
                  IF i \in regConnected THEN NewCall ELSE NoCall]
    /\ regPc' = "wave"
    /\ UNCHANGED <<regList, now, registry, lastUsed, socketFiles,
                   regConnected>>

\* InteractiveMode returns ("exit", end of input, no reachable host) and
\* the deferred CleanupAllConnections runs: cleanupConnection for every
\* session, then os.RemoveAll(cm.socketDir).
cleanupAll ==
    /\ regPc \in {"loop", "nohosts"}
    /\ registry' = [h \in Hosts |-> FALSE]
    /\ socketFiles' = {}
    /\ regPc' = "exited"
    /\ UNCHANGED <<regList, now, lastUsed, call, kind, regConnected,
                   regCommands>>

\* A minute passes.
tick ==
    /\ regPc \in {"wave", "loop"}
    /\ now < MaxTime
    /\ now' = now + 1
    /\ UNCHANGED <<regList, registry, lastUsed, socketFiles, call,
                   kind, regConnected, regPc, regCommands>>

NextReg ==
    \/ (\E i \in RegIndices : checkRegistry(i))
            /\ UNCHANGED notReg
    \/ (\E i \in RegIndices : cleanupStale(i))
            /\ UNCHANGED notReg
    \/ (\E i \in RegIndices, ok \in BOOLEAN : connectMaster(i, ok))
            /\ UNCHANGED notReg
    \/ (\E i \in RegIndices : storeSession(i))
            /\ UNCHANGED notReg
    \/ (\E i \in RegIndices : runAndTouch(i))
            /\ UNCHANGED notReg
    \/ waveEnds /\ UNCHANGED notReg
    \/ commandWave /\ UNCHANGED notReg
    \/ cleanupAll /\ UNCHANGED notReg
    \/ tick /\ UNCHANGED notReg

SpecReg == InitReg /\ [][NextReg]_vars

\* ------------------------------------------------------------------------
\* Claims about the registry
\* ------------------------------------------------------------------------

\* The call of index i found a connected session last used less than
\* FreshWindow minutes before.
FoundFresh(i) == call[i].had /\ call[i].elapsed < FreshWindow

\* What every call that has looked at the registry has done so far.
CallsAsClaimed ==
    \A i \in RegIndices :
        call[i].pc \notin {"idle", "check"} =>
            /\ FoundFresh(i) =>
                  /\ call[i].opens = 0
                  /\ ~call[i].cleaned
                  /\ ~call[i].err
                  /\ call[i].pc \in {"run", "done"}
            /\ (~FoundFresh(i) /\ call[i].pc \in {"store", "run", "done"}) =>
                  /\ call[i].opens = 1
                  /\ call[i].pc \in {"run", "done"} =>
                        (call[i].err \/ call[i].recorded)
                  /\ call[i].had => call[i].tornDown

\* The step in which a call looks at the registry and finds a connected
\* session last used less than FreshWindow minutes ago leaves the registry
\* entry, the socket files and the connections opened as they are.
FreshStepKeeps ==
    \A i \in RegIndices :
        (/\ call[i].pc = "check"
         /\ call'[i].pc # "check"
         /\ registry[regList[i]]
         /\ now - lastUsed[regList[i]] < FreshWindow) =>
            /\ registry' = registry
            /\ socketFiles' = socketFiles
            /\ call'[i].opens = call[i].opens

InProgress(h) ==
    {i \in RegIndices :
        regList[i] = h /\ call[i].pc \in {"cleanup", "connect", "store"}}

\* C7: establish and close operations for the same host never overlap: at
\* any time at most one of them is in progress for a host.
C7_OneWriterPerHost == \A h \in Hosts : Cardinality(InProgress(h)) <= 1

\* cm.mu as establishConnection takes it around its work on the table: the
\* Lock and the deferred Unlock are commented out, so call i never holds it.
HoldsMu(i) == FALSE

\* Call i inserts into the table or deletes from it in this step.
MutatesTable(i) ==
    /\ call[i].pc \in {"cleanup", "store"}
    /\ call'[i].pc # call[i].pc
    /\ registry' # registry

\* A call that mutates the table holds cm.mu.
MutationUnderLock == \A i \in RegIndices : MutatesTable(i) => HoldsMu(i)

\* C22: every insertion into and every deletion from the host-to-session
\* table is performed while the registry's exclusive lock is held, so no
\* two tasks ever mutate, or mutate and read, the table at the same time.
C22_TableMutatedUnderLock == [][MutationUnderLock]_vars

\* ========================================================================
\* Part 4: the switch over an input line
\* ========================================================================

\* The pieces input lines are made of: the control marker, the blank, the
\* words the switch knows and a word it does not know.  A line is the
\* concatenation of its tokens.
LineTokens ==
    {":", " ", "exit", "quit", "help", "hosts", "upload", "verbose", "ls"}

\* The lines the operator can enter.
InputLines == UNION {[1..n -> LineTokens] : n \in 0..MaxLineLen}

\* strings.TrimSpace.
RECURSIVE TrimLeft(_)
TrimLeft(l) == IF l # <<>> /\ Head(l) = " " THEN TrimLeft(Tail(l)) ELSE l

RECURSIVE TrimRight(_)
TrimRight(l) ==
    IF l # <<>> /\ l[Len(l)] = " " THEN TrimRight(SubSeq(l, 1, Len(l) - 1))
    ELSE l

TrimSpace(l) == TrimRight(TrimLeft(l))

\* strings.HasPrefix.
HasPrefix(l, p) == Len(l) >= Len(p) /\ SubSeq(l, 1, Len(p)) = p

\* strings.TrimPrefix.
TrimPrefix(l, p) == IF HasPrefix(l, p) THEN SubSeq(l, Len(p) + 1, Len(l)) ELSE l

\* The case of the switch that handles the trimmed line l.
SwitchCase(l) ==
    IF l = <<>> THEN "empty"
    ELSE IF l = <<":", "exit">> \/ l = <<":", "quit">> THEN "quit"
    ELSE IF l = <<":", "help">> THEN "help"
    ELSE IF l = <<":", "hosts">> THEN "hosts"
    ELSE IF HasPrefix(l, <<":", "upload", " ">>)
    THEN IF TrimSpace(TrimPrefix(l, <<":", "upload">>)) = <<>>
         THEN "usage" ELSE "upload"
    ELSE IF l = <<":", "verbose">> THEN "verbose"
    ELSE "execute"

\* InteractiveMode at its first prompt.
InitLine ==
    /\ linePc = "prompt"
    /\ lastLine = <<>>
    /\ branch = "none"
    /\ verboseFlag \in BOOLEAN
    /\ remoteRuns = 0
    /\ uploadRuns = 0
    /\ LineOnly

\* One turn of the loop: rl.Readline returns a line, the line is trimmed
\* and the switch handles it; the default case calls
\* executeCommandStreaming with the line.
handleLine(raw) ==
    LET l == TrimSpace(raw)
        c == SwitchCase(l)
    IN /\ linePc = "prompt"
       /\ c = "execute" => remoteRuns < MaxBroadcasts
       /\ c = "upload" => uploadRuns < MaxBroadcasts
       /\ lastLine' = l
       /\ branch' = c
       /\ linePc' = IF c = "quit" THEN "exited" ELSE "prompt"
       /\ verboseFlag' = IF c = "verbose" THEN ~verboseFlag ELSE verboseFlag
       /\ remoteRuns' = IF c = "execute" THEN remoteRuns + 1 ELSE remoteRuns
       /\ uploadRuns' = IF c = "upload" THEN uploadRuns + 1 ELSE uploadRuns

\* rl.Readline returns an error (end of input): the function returns.
readlineEnds ==
    /\ linePc = "prompt"
    /\ linePc' = "exited"
    /\ UNCHANGED <<lastLine, branch, verboseFlag, remoteRuns, uploadRuns>>

NextLine ==
    \/ (\E raw \in InputLines : handleLine(raw)) /\ UNCHANGED notLine
    \/ readlineEnds /\ UNCHANGED notLine

SpecLine == InitLine /\ [][NextLine]_vars

\* ------------------------------------------------------------------------
\* Claims about input lines
\* ------------------------------------------------------------------------

\* The line starts with the control marker.
HasMarker(l) == l # <<>> /\ Head(l) = ":"

\* A turn of the loop that handles a line starting with the control marker
\* calls no remote execution.
ControlLineIsLocal == HasMarker(lastLine') => remoteRuns' = remoteRuns

\* C16: an input line that starts with the control marker ':' is always
\* handled locally as a control command, known or unknown, and never
\* starts a remote command execution.
C16_ControlNeverRemote == [][ControlLineIsLocal]_vars

\* The trimmed line is ':upload' with no file argument.
UploadWithoutFile(l) == l = <<":", "upload">>

\* A turn of the loop that handles ':upload' without a file argument prints
\* the usage message and starts neither a copy nor a remote command.
UploadWithoutFileIsUsage ==
    (UploadWithoutFile(lastLine') /\ linePc' = "prompt") =>
        /\ branch' = "usage"
        /\ remoteRuns' = remoteRuns
        /\ uploadRuns' = uploadRuns

\* C33: ':upload' given without a file argument prints the usage message
\* and starts neither a copy nor a remote command on any host.
C33_UploadWithoutFile == [][UploadWithoutFileIsUsage]_vars

\* ========================================================================
\* Part 5: the loop over host sessions
\* ========================================================================

\* What the user can type: a quit token, a line starting with ':', a
\* command for the remote shells.
InputKinds == {"quit", "control", "command"}

\* StartInteractiveSession has started one readHostOutput per session and
\* readUserInput, and is at its select.
InitSession ==
    /\ sessPc = "select"
    /\ doneChan = FALSE
    /\ inputChan = FALSE
    /\ inPc = "prompt"
    /\ inText = "none"
    /\ entered = 0
    /\ hostSessions \in (SUBSET Hosts) \ {{}}
    /\ shell = [h \in Hosts |-> IF h \in hostSessions THEN "running" ELSE "none"]
    /\ stdoutBuf = [h \in Hosts |-> 0]
    /\ emitted = 0
    /\ outPc = [h \in Hosts |-> IF h \in hostSessions THEN "read" ELSE "none"]
    /\ outputChan = 0
    /\ closeCalls = [h \in Hosts |-> 0]
    /\ quitSeen = FALSE
    /\ outputMutex = "free"
    /\ writers = {}
    /\ SessOnly

\* The process runs: no goroutine has panicked.
Running == sessPc \notin {"off", "panic"}

\* readUserInput begins to print the prompt.
inputPrompt ==
    /\ Running
    /\ inPc = "prompt"
    /\ inPc' = "select"
    /\ writers' = writers \cup {"input"}
    /\ UNCHANGED <<sessPc, doneChan, inputChan, inText, entered,
                   hostSessions, shell, stdoutBuf, emitted, outPc,
                   outputChan, closeCalls, quitSeen, outputMutex>>

\* readUserInput: the prompt is out; the select on doneChan with its
\* default case.  On doneChan it returns and the deferred close(inputChan)
\* runs; closing a closed channel panics.
inputSelect ==
    /\ Running
    /\ inPc = "select"
    /\ writers' = writers \ {"input"}
    /\ IF doneChan
       THEN /\ inPc' = "returned"
            /\ inputChan' = TRUE
            /\ sessPc' = IF inputChan THEN "panic" ELSE sessPc
       ELSE /\ inPc' = "scan"
            /\ UNCHANGED <<inputChan, sessPc>>
    /\ UNCHANGED <<doneChan, inText, entered, hostSessions, shell, stdoutBuf,
                   emitted, outPc, outputChan, closeCalls, quitSeen,
                   outputMutex>>

\* The user types a line: scanner.Scan returns true.
userTypes(k) ==
    /\ Running
    /\ inPc = "scan"
    /\ entered < MaxBroadcasts
    /\ inPc' = "send"
    /\ inText' = k
    /\ entered' = entered + 1
    /\ UNCHANGED <<sessPc, doneChan, inputChan, hostSessions, shell,
                   stdoutBuf, emitted, outPc, outputChan, closeCalls,
                   quitSeen,
                   outputMutex, writers>>

\* Standard input ends: scanner.Scan returns false, readUserInput returns
\* and the deferred close(inputChan) runs.
userEOF ==
    /\ Running
    /\ inPc = "scan"
    /\ inPc' = "returned"
    /\ inputChan' = TRUE
    /\ sessPc' = IF inputChan THEN "panic" ELSE sessPc
    /\ UNCHANGED <<doneChan, inText, entered, hostSessions, shell, stdoutBuf,
                   emitted, outPc, outputChan, closeCalls, quitSeen,
                   outputMutex, writers>>

\* The loop receives a line from inputChan.  A quit token takes it to the
\* exit; a line starting with ':' is handled by handleControlCommand; any
\* other line is written to the stdin of every session.
mainReceives ==
    /\ sessPc = "select"
    /\ inPc = "send"
    /\ ~inputChan
    /\ inPc' = "prompt"
    /\ inText' = "none"
    /\ sessPc' = IF inText = "quit" THEN "quitting" ELSE "select"
    /\ quitSeen' = (quitSeen \/ inText = "quit")
    /\ UNCHANGED <<doneChan, inputChan, entered, hostSessions, shell,
                   stdoutBuf, emitted, outPc, outputChan, closeCalls,
                   outputMutex, writers>>

\* The exit on a quit token: close(doneChan); close(inputChan); closing a
\* closed channel panics.  Then the loop waits for the output readers.
mainQuits ==
    /\ sessPc = "quitting"
    /\ doneChan' = TRUE
    /\ inputChan' = TRUE
    /\ sessPc' = IF inputChan THEN "panic" ELSE "wait"
    /\ UNCHANGED <<inPc, inText, entered, hostSessions, shell, stdoutBuf,
                   emitted, outPc, outputChan, closeCalls, quitSeen,
                   outputMutex, writers>>

\* readUserInput sends on inputChan after the loop has closed it: sending
\* on a closed channel panics.
sendOnClosed ==
    /\ Running
    /\ inPc = "send"
    /\ inputChan
    /\ sessPc' = "panic"
    /\ UNCHANGED <<doneChan, inputChan, inPc, inText, entered, hostSessions,
                   shell, stdoutBuf, emitted, outPc, outputChan, closeCalls,
                   quitSeen,
                   outputMutex, writers>>

\* The loop finds inputChan closed: close(doneChan), then the wait.
mainInputClosed ==
    /\ sessPc = "select"
    /\ inputChan
    /\ doneChan' = TRUE
    /\ sessPc' = "wait"
    /\ UNCHANGED <<inputChan, inPc, inText, entered, hostSessions, shell,
                   stdoutBuf, emitted, outPc, outputChan, closeCalls,
                   quitSeen,
                   outputMutex, writers>>

\* The loop receives a record from outputChan, takes outputMutex and
\* begins to print the record.
mainPrints ==
    /\ sessPc = "select"
    /\ outputChan > 0
    /\ outputMutex = "free"
    /\ outputChan' = outputChan - 1
    /\ outputMutex' = "main"
    /\ writers' = writers \cup {"main"}
    /\ sessPc' = "printing"
    /\ UNCHANGED <<doneChan, inputChan, inPc, inText, entered,
                   hostSessions, shell, stdoutBuf, emitted, outPc,
                   closeCalls, quitSeen>>

\* The record and the prompt after it are out: the loop releases
\* outputMutex and is back at its select.
mainPrinted ==
    /\ sessPc = "printing"
    /\ outputMutex' = "free"
    /\ writers' = writers \ {"main"}
    /\ sessPc' = "select"
    /\ UNCHANGED <<doneChan, inputChan, inPc, inText, entered,
                   hostSessions, shell, stdoutBuf, emitted, outPc,
                   outputChan, closeCalls, quitSeen>>

\* The remote shell of h writes a line.
shellWrites(h) ==
    /\ Running
    /\ shell[h] = "running"
    /\ emitted < MaxLines
    /\ stdoutBuf' = [stdoutBuf EXCEPT ![h] = @ + 1]
    /\ emitted' = emitted + 1
    /\ UNCHANGED <<sessPc, doneChan, inputChan, inPc, inText, entered,
                   hostSessions, shell, outPc, outputChan, closeCalls,
                   quitSeen,
                   outputMutex, writers>>

\* The ssh child of h ends by itself.
shellExits(h) ==
    /\ Running
    /\ shell[h] = "running"
    /\ shell' = [shell EXCEPT ![h] = "exited"]
    /\ UNCHANGED <<sessPc, doneChan, inputChan, inPc, inText, entered,
                   hostSessions, stdoutBuf, emitted, outPc, outputChan,
                   closeCalls, quitSeen,
                   outputMutex, writers>>

\* readHostOutput: reader.ReadString returns a line.
readLine(h) ==
    /\ Running
    /\ outPc[h] = "read"
    /\ stdoutBuf[h] > 0
    /\ stdoutBuf' = [stdoutBuf EXCEPT ![h] = @ - 1]
    /\ outPc' = [outPc EXCEPT ![h] = "send"]
    /\ UNCHANGED <<sessPc, doneChan, inputChan, inPc, inText, entered,
                   hostSessions, shell, emitted, outputChan, closeCalls,
                   quitSeen,
                   outputMutex, writers>>

\* readHostOutput: reader.ReadString returns io.EOF, the loop breaks.
readEOF(h) ==
    /\ Running
    /\ outPc[h] = "read"
    /\ stdoutBuf[h] = 0
    /\ shell[h] = "exited"
    /\ outPc' = [outPc EXCEPT ![h] = "close"]
    /\ UNCHANGED <<sessPc, doneChan, inputChan, inPc, inText, entered,
                   hostSessions, shell, stdoutBuf, emitted, outputChan,
                   closeCalls, quitSeen,
                   outputMutex, writers>>

\* A channel that takes a record however many it holds.
HasRoomAlways(n) == TRUE

\* A send into outputChan goes through while the buffer holds fewer
\* records than its capacity.
HasRoom(n) == n < OutputChanCap

\* readHostOutput: the send of the record into outputChan, which blocks
\* while the buffer is full.
sendRecord(h) ==
    /\ Running
    /\ outPc[h] = "send"
    /\ HasRoom(outputChan)
    /\ outputChan' = outputChan + 1
    /\ outPc' = [outPc EXCEPT ![h] = "read"]
    /\ UNCHANGED <<sessPc, doneChan, inputChan, inPc, inText, entered,
                   hostSessions, shell, stdoutBuf, emitted, closeCalls,
                   quitSeen,
                   outputMutex, writers>>

\* readHostOutput returns: the deferred hs.Close, then outputWg.Done.
readerCloses(h) ==
    /\ Running
    /\ outPc[h] = "close"
    /\ closeCalls' = [closeCalls EXCEPT ![h] = @ + 1]
    /\ shell' = [shell EXCEPT ![h] = "exited"]
    /\ outPc' = [outPc EXCEPT ![h] = "done"]
    /\ UNCHANGED <<sessPc, doneChan, inputChan, inPc, inText, entered,
                   hostSessions, stdoutBuf, emitted, outputChan, quitSeen,
                   outputMutex, writers>>

\* outputWg.Wait returns and StartInteractiveSession with it.
outputWgWait ==
    /\ sessPc = "wait"
    /\ \A h \in hostSessions : outPc[h] = "done"
    /\ sessPc' = "returned"
    /\ UNCHANGED <<doneChan, inputChan, inPc, inText, entered, hostSessions,
                   shell, stdoutBuf, emitted, outPc, outputChan, closeCalls,
                   quitSeen,
                   outputMutex, writers>>

\* InteractiveMode closes every session and returns.
closeSessions ==
    /\ sessPc = "returned"
    /\ closeCalls' = [h \in Hosts |->
                        IF h \in hostSessions THEN closeCalls[h] + 1
                        ELSE closeCalls[h]]
    /\ shell' = [h \in Hosts |->
                   IF h \in hostSessions THEN "exited" ELSE shell[h]]
    /\ sessPc' = "done"
    /\ UNCHANGED <<doneChan, inputChan, inPc, inText, entered, hostSessions,
                   stdoutBuf, emitted, outPc, outputChan, quitSeen,
                   outputMutex, writers>>

NextSession ==
    \/ inputPrompt /\ UNCHANGED notSess
    \/ inputSelect /\ UNCHANGED notSess
    \/ (\E k \in InputKinds : userTypes(k)) /\ UNCHANGED notSess
    \/ userEOF /\ UNCHANGED notSess
    \/ mainReceives /\ UNCHANGED notSess
    \/ mainQuits /\ UNCHANGED notSess
    \/ sendOnClosed /\ UNCHANGED notSess
    \/ mainInputClosed /\ UNCHANGED notSess
    \/ mainPrints /\ UNCHANGED notSess
    \/ mainPrinted /\ UNCHANGED notSess
    \/ (\E h \in Hosts : shellWrites(h)) /\ UNCHANGED notSess
    \/ (\E h \in Hosts : shellExits(h)) /\ UNCHANGED notSess
    \/ (\E h \in Hosts : readLine(h)) /\ UNCHANGED notSess
    \/ (\E h \in Hosts : readEOF(h)) /\ UNCHANGED notSess
    \/ (\E h \in Hosts : sendRecord(h)) /\ UNCHANGED notSess
    \/ (\E h \in Hosts : readerCloses(h)) /\ UNCHANGED notSess
    \/ outputWgWait /\ UNCHANGED notSess
    \/ closeSessions /\ UNCHANGED notSess

SpecSession == InitSession /\ [][NextSession]_vars

\* The scheduler runs every goroutine that can take a step: the loop, the
\* input reader once it has a line or a closed channel before it, and the
\* output readers.  What the user and the remote shells do is up to them.
FairSession ==
    /\ WF_vars(inputPrompt /\ UNCHANGED notSess)
    /\ WF_vars(inputSelect /\ UNCHANGED notSess)
    /\ WF_vars(mainReceives /\ UNCHANGED notSess)
    /\ WF_vars(mainQuits /\ UNCHANGED notSess)
    /\ WF_vars(sendOnClosed /\ UNCHANGED notSess)
    /\ WF_vars(mainInputClosed /\ UNCHANGED notSess)
    /\ WF_vars(mainPrints /\ UNCHANGED notSess)
    /\ WF_vars(mainPrinted /\ UNCHANGED notSess)
    /\ \A h \in Hosts :
         /\ WF_vars(readLine(h) /\ UNCHANGED notSess)
         /\ WF_vars(readEOF(h) /\ UNCHANGED notSess)
         /\ WF_vars(sendRecord(h) /\ UNCHANGED notSess)
         /\ WF_vars(readerCloses(h) /\ UNCHANGED notSess)
    /\ WF_vars(outputWgWait /\ UNCHANGED notSess)
    /\ WF_vars(closeSessions /\ UNCHANGED notSess)

SpecSessionFair == InitSession /\ [][NextSession]_vars /\ FairSession

\* ------------------------------------------------------------------------
\* Claims about the loop over host sessions
\* ------------------------------------------------------------------------

\* InteractiveMode has returned and every session has been closed.
SessionsClosed ==
    /\ sessPc = "done"
    /\ \A h \in hostSessions : closeCalls[h] >= 1

\* C17: after the user enters a quit token the interactive loop eventually
\* exits and every host session is closed: the wait for the per-host
\* output readers always completes, be they blocked reading from a host or
\* blocked sending a record into the output queue.
C17_QuitTerminates == quitSeen ~> SessionsClosed

\* The loop of StartInteractiveSession is running.
LoopRunning == sessPc \in {"select", "printing"}

\* A producer that finds the queue full is still at its send after the
\* step.
FullQueueBlocks ==
    \A h \in hostSessions :
        (outPc[h] = "send" /\ outputChan = OutputChanCap) =>
            outPc'[h] = "send"

\* C24: the output queue never holds more than its fixed capacity; a
\* producer that finds it full blocks until the consumer takes a record,
\* and while the loop is running a stalled or blocked producer never
\* prevents the records already queued from being delivered.
C24_BoundedQueue ==
    /\ [](outputChan \in 0..OutputChanCap)
    /\ [][FullQueueBlocks]_vars
    /\ (sessPc = "select" /\ outputChan > 0)
           ~> (sessPc = "printing" \/ ~LoopRunning)

\* The loop is running, the queue is full of one host's records, that host
\* is blocked at its send and the other host is stalled with nothing to
\* read.
C24_Witness ==
    /\ sessPc = "select"
    /\ outputChan = OutputChanCap
    /\ \E h \in hostSessions, g \in hostSessions :
         /\ h # g
         /\ outPc[h] = "send"
         /\ outPc[g] = "read" /\ stdoutBuf[g] = 0 /\ shell[g] = "running"

\* Every task that is writing to the terminal holds outputMutex.
WritersHoldLock == \A w \in writers : outputMutex = w

\* C21: every write to the shared terminal during an interactive session
\* is made by one logical writer that holds the output lock: the output of
\* host records, the input prompt and control-command messages are never
\* written concurrently by two tasks.
C21_OneTerminalWriter == WritersHoldLock /\ Cardinality(writers) <= 1

\* A step that executes close(inputChan): readUserInput returns (its
\* deferred close), or the loop leaves its quit handling.
ClosesInputChan ==
    \/ inPc # "returned" /\ inPc' = "returned"
    \/ sessPc = "quitting" /\ sessPc' # "quitting"

\* A step in which readUserInput's send on inputChan is executed: the loop
\* receives the line, or the send finds the channel closed.
SendsOnInputChan ==
    /\ inPc = "send"
    /\ inPc' # inPc \/ sessPc' = "panic"

\* inputChan is open whenever it is closed or sent on.
InputChanOpenWhenUsed == (ClosesInputChan \/ SendsOnInputChan) => ~inputChan

\* C35: the interactive input channel is closed at most once and nothing is
\* sent on it after it has been closed, under every interleaving of the
\* main loop's quit handling with the input reader task (which may be
\* blocked reading a line, about to send a line, or exiting).
C35_InputChanClosedOnce == [][InputChanOpenWhenUsed]_vars

\* C36: over the life of an interactive run, Close is invoked exactly once
\* on each host session: the close performed by the host's output reader
\* when it exits and the close-all loop at session end never both act on
\* the same session.
C36_CloseOncePerSession ==
    \A h \in hostSessions :
        /\ closeCalls[h] <= 1
        /\ sessPc = "done" => closeCalls[h] = 1

\* ========================================================================
\* Part 7: the cleaning of a host's line
\* ========================================================================

\* The characters a host's line is made of, one per class of the pattern
\* \x1b\[[0-9;]*[a-zA-Z]: the escape character, the bracket, a digit or
\* semicolon, a letter; and the blank.
TextChars == {"ESC", "[", "0", "m", " "}

\* The lines a host can write.
TextLines == UNION {[1..n -> TextChars] : n \in 0..MaxTextLen}

\* [0-9;]* from position j on: the position after the digits.
RECURSIVE ParamsEnd(_, _)
ParamsEnd(s, j) ==
    IF j <= Len(s) /\ s[j] = "0" THEN ParamsEnd(s, j + 1) ELSE j

\* The position of the last character of the match of the pattern that
\* starts at position i, or 0 when none starts there.
MatchEnd(s, i) ==
    IF i + 1 <= Len(s) /\ s[i] = "ESC" /\ s[i + 1] = "["
    THEN LET j == ParamsEnd(s, i + 2)
         IN IF j <= Len(s) /\ s[j] = "m" THEN j ELSE 0
    ELSE 0

\* ReplaceAllString(input, "") from position i on: the matches are found
\* from left to right and do not overlap.
RECURSIVE StripFrom(_, _)
StripFrom(s, i) ==
    IF i > Len(s) THEN <<>>
    ELSE LET j == MatchEnd(s, i)
         IN IF j > 0 THEN StripFrom(s, j + 1)
            ELSE <<s[i]>> \o StripFrom(s, i + 1)

stripAnsiEscapeSequences(s) == StripFrom(s, 1)

\* readHostOutput has read a line from the host.
InitStrip ==
    /\ stripPc = "read"
    /\ rawLine \in TextLines
    /\ cleanLine = <<>>
    /\ StripOnly

\* readHostOutput on the line: the escape sequences are stripped, the
\* result is trimmed, an empty result is ignored and any other is sent as
\* the Data of a record.
cleanAndSend ==
    /\ stripPc = "read"
    /\ cleanLine' = TrimSpace(stripAnsiEscapeSequences(rawLine))
    /\ stripPc' = IF cleanLine' = <<>> THEN "ignored" ELSE "delivered"
    /\ UNCHANGED rawLine

NextStrip == cleanAndSend /\ UNCHANGED notStrip

SpecStrip == InitStrip /\ [][NextStrip]_vars

\* ------------------------------------------------------------------------
\* Claims about the cleaning
\* ------------------------------------------------------------------------

\* The text holds an escape sequence.
HasEscape(s) == \E i \in 1..Len(s) : MatchEnd(s, i) > 0

\* C25: every record delivered to the consumer is one complete line whose
\* text contains no ANSI escape sequence: the strip function removes every
\* escape sequence, so applying it to its own output changes nothing.
C25_DeliveredIsClean ==
    stripPc = "delivered" =>
        /\ ~HasEscape(cleanLine)
        /\ stripAnsiEscapeSequences(cleanLine) = cleanLine

\* ========================================================================
\* Part 8: the control socket path
\* ========================================================================

\* The characters of a host name: a letter, the slash and the underscore.
NameChars == {"a", "/", "_"}

\* The host names of the command line.
HostNames == UNION {[1..n -> NameChars] : n \in 1..MaxNameLen}

\* cm.socketDir, a clean path.
SocketDir == <<"/", "tmp", "/", "gosh-ssh-sockets">>

\* strings.ReplaceAll(host, "/", "_").
ReplaceAll(s, old, new) == [i \in 1..Len(s) |-> IF s[i] = old THEN new ELSE s[i]]

\* A path made of the host name as it is.
SocketPathVerbatim(host) == SocketDir \o <<"/", "gosh-">> \o host

\* filepath.Join(cm.socketDir, "gosh-"+strings.ReplaceAll(host, "/", "_")):
\* the second element holds no separator, so Join puts one separator
\* between the two.
getSocketPath(host) ==
    SocketDir \o <<"/", "gosh-">> \o ReplaceAll(host, "/", "_")

\* Two calls of establishConnection are about to compute their socketPath.
InitSock ==
    /\ sockHosts \in [1..2 -> HostNames]
    /\ sockPath = [i \in 1..2 |-> <<>>]
    /\ SockOnly

\* establishConnection: socketPath := cm.getSocketPath(host).
computeSocketPath(i) ==
    /\ sockPath[i] = <<>>
    /\ sockPath' = [sockPath EXCEPT ![i] = getSocketPath(sockHosts[i])]
    /\ UNCHANGED sockHosts

NextSock == (\E i \in 1..2 : computeSocketPath(i)) /\ UNCHANGED notSock

SpecSock == InitSock /\ [][NextSock]_vars

\* ------------------------------------------------------------------------
\* Claims about the control socket path
\* ------------------------------------------------------------------------

\* Both calls have computed their path.
PathsComputed == \A i \in DOMAIN sockPath : sockPath[i] # <<>>

\* C26: each host's connection artifact is uniquely named: the socket path
\* for host h is '<socketDir>/gosh-<h>', and two distinct hosts never map
\* to the same socket path.
C26_SocketPathUnique ==
    PathsComputed =>
        /\ \A i \in 1..2 : sockPath[i] = SocketPathVerbatim(sockHosts[i])
        /\ sockHosts[1] # sockHosts[2] => sockPath[1] # sockPath[2]

\* ========================================================================
\* Part 9: the progress bar
\* ========================================================================

\* The bits of the significand of a float64.
MantissaBits == 53

\* A positive float64 is a sequence of bits, most significant first, that
\* starts with 1, and the exponent of that first bit:
\* [bits |-> <<1, 0, 1>>, top |-> 2] is 5.

RECURSIVE Pow2(_)
Pow2(n) == IF n = 0 THEN 1 ELSE 2 * Pow2(n - 1)

\* How often d can be doubled without exceeding n, for n >= d > 0.
RECURSIVE UpShift(_, _)
UpShift(n, d) == IF 2 * d <= n THEN 1 + UpShift(n, 2 * d) ELSE 0

\* How often n must be doubled to reach d, for 0 < n.
RECURSIVE DownShift(_, _)
DownShift(n, d) == IF n < d THEN 1 + DownShift(2 * n, d) ELSE 0

\* 2^k modulo d.
RECURSIVE PowMod(_, _)
PowMod(k, d) == IF k = 0 THEN 1 % d ELSE (2 * PowMod(k - 1, d)) % d

\* The remainder of the long division of r by d after k binary digits,
\* for 0 <= r < d.
RemAfter(r, d, k) == (r * PowMod(k, d)) % d

\* The first k digits of the binary expansion of r/d, for 0 <= r < d.
QuotBits(r, d, k) ==
    [i \in 1..k |-> IF 2 * RemAfter(r, d, i - 1) >= d THEN 1 ELSE 0]

\* The bits plus one in the last place.
IncBits(b) ==
    IF \A i \in 1..Len(b) : b[i] = 1
    THEN <<1>> \o [i \in 1..Len(b) |-> 0]
    ELSE [i \in 1..Len(b) |->
            IF \A j \in (i + 1)..Len(b) : b[j] = 1 THEN 1 - b[i] ELSE b[i]]

\* Rounding to the nearest float64, ties to even: f has more bits than a
\* significand holds, and sticky tells that digits beyond them are not all
\* zero.
RoundNearestEven(f, sticky) ==
    IF Len(f.bits) <= MantissaBits THEN f
    ELSE LET kept == SubSeq(f.bits, 1, MantissaBits)
             half == f.bits[MantissaBits + 1] = 1
             rest == sticky \/ \E i \in (MantissaBits + 2)..Len(f.bits) :
                                  f.bits[i] = 1
             up   == half /\ (rest \/ kept[MantissaBits] = 1)
             r    == IF up THEN IncBits(kept) ELSE kept
         IN [bits |-> r,
             top  |-> IF Len(r) > MantissaBits THEN f.top + 1 ELSE f.top]

\* float64(n) / float64(d) for n > 0 and d > 0.
FloatDiv(n, d) ==
    LET e  == IF n >= d THEN UpShift(n, d) ELSE 0 - DownShift(n, d)
        n0 == IF e < 0 THEN n * Pow2(0 - e) ELSE n
        d0 == IF e > 0 THEN d * Pow2(e) ELSE d
    IN RoundNearestEven(
           [bits |-> <<1>> \o QuotBits(n0 - d0, d0, MantissaBits),
            top  |-> e],
           RemAfter(n0 - d0, d0, MantissaBits) # 0)

\* The bits of the number c.
RECURSIVE CarryBits(_)
CarryBits(c) == IF c = 0 THEN <<>> ELSE CarryBits(c \div 2) \o <<c % 2>>

\* The carry out of the k lowest bits of b when b is multiplied by w.
RECURSIVE CarryOut(_, _, _)
CarryOut(b, w, k) ==
    IF k = 0 THEN 0
    ELSE (w * b[Len(b) - k + 1] + CarryOut(b, w, k - 1)) \div 2

\* The bits of w times the number with bits b.
MulBits(b, w) ==
    CarryBits(CarryOut(b, w, Len(b))) \o
    [i \in 1..Len(b) |-> (w * b[i] + CarryOut(b, w, Len(b) - i)) % 2]

\* float64(w) * f for w > 0.
FloatMul(w, f) ==
    LET p == MulBits(f.bits, w)
    IN RoundNearestEven(
           [bits |-> p, top |-> f.top + (Len(p) - Len(f.bits))], FALSE)

RECURSIVE BitsToInt(_)
BitsToInt(b) ==
    IF b = <<>> THEN 0
    ELSE 2 * BitsToInt(SubSeq(b, 1, Len(b) - 1)) + b[Len(b)]

\* int(f): the digits before the binary point.
FloatToInt(f) ==
    IF f.top < 0 THEN 0 ELSE BitsToInt(SubSeq(f.bits, 1, f.top + 1))

Abs(n) == IF n < 0 THEN 0 - n ELSE n

\* filled := int(float64(width) * (float64(current) / float64(total))) for
\* total # 0 and width >= 0.  The quotient carries the sign of its
\* operands and int truncates towards zero.
Filled(current, total, width) ==
    IF current = 0 \/ width = 0 THEN 0
    ELSE LET m == FloatToInt(
                      FloatMul(width, FloatDiv(Abs(current), Abs(total))))
         IN IF (current < 0) = (total < 0) THEN m ELSE 0 - m

\* A bar of empty cells.
BarCellEmpty(i, filled) == "empty"

\* The cell the loop appends for index i.
BarCell(i, filled) == IF i < filled THEN "full" ELSE "empty"

\* The loop over the indices 0 .. width-1 that builds the bar.
Bar(width, filled) == [i \in 1..width |-> BarCell(i - 1, filled)]

\* The arguments of the calls.
BarCalls == ((-1)..MaxCount) \X ((-1)..MaxCount) \X (0..MaxCount)

\* printProgressBar has been called.
InitBar ==
    /\ barPc = "called"
    /\ barArgs \in BarCalls
    /\ barOut = <<>>
    /\ BarOnly

\* printProgressBar: nothing for total = 0; else the bar, current/total
\* (and the percentage), and a newline when current = total.
printProgressBar ==
    LET current == barArgs[1]
        total   == barArgs[2]
        width   == barArgs[3]
    IN /\ barPc = "called"
       /\ barPc' = "returned"
       /\ barOut' =
            IF total = 0 THEN <<>>
            ELSE <<[bar     |-> Bar(width, Filled(current, total, width)),
                    label   |-> <<current, total>>,
                    newline |-> current = total]>>
       /\ UNCHANGED barArgs

NextBar == printProgressBar /\ UNCHANGED notBar

SpecBar == InitBar /\ [][NextBar]_vars

\* ------------------------------------------------------------------------
\* Claims about the progress bar
\* ------------------------------------------------------------------------

\* floor(n / d) for d # 0.
FloorDiv(n, d) == IF d > 0 THEN n \div d ELSE (0 - n) \div (0 - d)

Min(a, b) == IF a < b THEN a ELSE b

Max(a, b) == IF a > b THEN a ELSE b

\* min(width, max(0, floor(width * current / total))).
ExactFilled(current, total, width) ==
    Min(width, Max(0, FloorDiv(width * current, total)))

\* The cells of the bar that are full.
FullCells(bar) == {i \in 1..Len(bar) : bar[i] = "full"}

\* The bar has width cells and its full cells are its first n cells.
BarShows(bar, width, n) ==
    /\ Len(bar) = width
    /\ FullCells(bar) = 1..n

\* Nothing is printed for total = 0; else one line with current/total and
\* a newline exactly when current = total.
BarLine ==
    LET current == barArgs[1]
        total   == barArgs[2]
    IN IF total = 0 THEN barOut = <<>>
       ELSE /\ Len(barOut) = 1
            /\ barOut[1].label = <<current, total>>
            /\ barOut[1].newline = (current = total)

\* C27 as stated: printProgressBar prints nothing when total is 0;
\* otherwise the bar has exactly width cells, of which the first
\* min(width, max(0, floor(width*current/total))) are filled, followed by
\* current/total, and a newline is emitted exactly when current = total.
C27_BarIsExact ==
    barPc = "returned" =>
        /\ BarLine
        /\ barArgs[2] # 0 =>
             BarShows(barOut[1].bar, barArgs[3],
                      ExactFilled(barArgs[1], barArgs[2], barArgs[3]))

\* C27, amended: as stated, but the number of filled cells is the float64
\* product width * (current/total) truncated, which is the exact floor or,
\* where width*current is a multiple of total and the product falls just
\* below that integer, one less; a complete bar (current = total) is full.
C27_BarIsTruncatedFloat ==
    barPc = "returned" =>
        /\ BarLine
        /\ barArgs[2] # 0 =>
             LET current == barArgs[1]
                 total   == barArgs[2]
                 width   == barArgs[3]
                 exact   == ExactFilled(current, total, width)
             IN \E n \in {exact - 1, exact} :
                  /\ n >= 0
                  /\ BarShows(barOut[1].bar, width, n)
                  /\ (width * current) % Abs(total) # 0 => n = exact
                  /\ current = total => n = width

\* A bar in progress that shows one cell less than the exact floor.
C27_Witness ==
    /\ barPc = "returned"
    /\ 0 < barArgs[1] /\ barArgs[1] < barArgs[2]
    /\ ExactFilled(barArgs[1], barArgs[2], barArgs[3]) > 1
    /\ BarShows(barOut[1].bar, barArgs[3],
                ExactFilled(barArgs[1], barArgs[2], barArgs[3]) - 1)

\* ========================================================================
\* Part 10: the host prefix
\* ========================================================================

\* The palette: the ends of the colour escape sequences.
colors ==
    <<"31m", "32m", "33m", "34m", "35m", "36m", "37m",
      "91m", "92m", "93m", "94m", "95m", "96m", "97m",
      "38;5;208m", "38;5;201m", "38;5;120m">>

\* len(colors).
NumColors == Len(colors)

\* The reset sequence, and the start of every colour sequence.
reset == "ESC[0m"
BoldStart == "ESC[1;"

\* The host names formatHostPrefix is called with, the empty one included.
PrefixHosts == UNION {[1..n -> {"a", "b"}] : n \in 0..MaxNameLen}

\* fmt.Sprintf("%-*s", width, s): s left-justified in a field of width
\* characters; a negative width argument is taken as the flag '-' and its
\* absolute value.
PadRight(s, width) ==
    s \o [i \in 1..(Abs(width) - Len(s)) |-> " "]

\* An index that stops at the last colour.
ColorIndexClamped(idx) == IF idx < NumColors THEN idx ELSE NumColors - 1

\* idx % len(colors).
ColorIndex(idx) == idx % NumColors

\* The calls: host, idx, maxLen, noColor.
PrefixCalls ==
    PrefixHosts \X (0..MaxIdx) \X ((0 - MaxPad)..MaxPad) \X BOOLEAN

\* formatHostPrefix has been called.
InitPfx ==
    /\ pfxPc = "called"
    /\ pfxArgs \in PrefixCalls
    /\ pfxOut = <<>>
    /\ PfxOnly

\* formatHostPrefix: the padded host, wrapped in the colour code and the
\* reset code unless noColor is set.
formatHostPrefix ==
    LET host    == pfxArgs[1]
        idx     == pfxArgs[2]
        maxLen  == pfxArgs[3]
        noColor == pfxArgs[4]
    IN /\ pfxPc = "called"
       /\ pfxPc' = "returned"
       /\ pfxOut' = IF noColor THEN PadRight(host, maxLen)
                    ELSE <<BoldStart, colors[ColorIndex(idx) + 1]>>
                         \o PadRight(host, maxLen) \o <<reset>>
       /\ UNCHANGED pfxArgs

NextPfx == formatHostPrefix /\ UNCHANGED notPfx

SpecPfx == InitPfx /\ [][NextPfx]_vars

\* ------------------------------------------------------------------------
\* Claims about the host prefix
\* ------------------------------------------------------------------------

\* The elements of the prefix that are escape sequences.
Escapes(s) == {i \in 1..Len(s) : s[i] \notin {"a", "b", " "}}

\* The prefix without its escape sequences.
RECURSIVE Visible(_)
Visible(s) ==
    IF s = <<>> THEN <<>>
    ELSE IF s[1] \in {"a", "b", " "} THEN <<s[1]>> \o Visible(Tail(s))
         ELSE Visible(Tail(s))

\* The visible text is the host left-justified in a field of n characters.
LeftJustified(s, host, n) ==
    /\ Len(Visible(s)) = n
    /\ SubSeq(Visible(s), 1, Len(host)) = host
    /\ \A i \in (Len(host) + 1)..n : Visible(s)[i] = " "

\* With noColor the prefix holds no escape sequence; otherwise it starts
\* with the colour code at index idx modulo the palette size and ends with
\* the reset code, so index len(colors) gives the colour of index 0.
Coloured ==
    LET idx == pfxArgs[2]
    IN IF pfxArgs[4] THEN Escapes(pfxOut) = {}
       ELSE /\ Escapes(pfxOut) = {1, 2, Len(pfxOut)}
            /\ pfxOut[1] = BoldStart
            /\ pfxOut[2] = colors[(IF idx >= NumColors
                                   THEN idx - NumColors ELSE idx) + 1]
            /\ pfxOut[Len(pfxOut)] = reset

\* C28 as stated: formatHostPrefix left-justifies the host in a field of
\* max(len(host), maxLen) characters; with noColor the result contains no
\* escape sequence, otherwise it is the padded host wrapped in the colour
\* code at index (idx modulo palette size) and a reset code, so index
\* len(colors) gives the same prefix as index 0.
C28_FieldIsMaxLen ==
    pfxPc = "returned" =>
        /\ LeftJustified(pfxOut, pfxArgs[1], Max(Len(pfxArgs[1]), pfxArgs[3]))
        /\ Coloured

\* C28, amended: as stated, but the field has max(len(host), |maxLen|)
\* characters: a negative maxLen pads like its absolute value.
C28_FieldIsAbsMaxLen ==
    pfxPc = "returned" =>
        /\ LeftJustified(pfxOut, pfxArgs[1],
                         Max(Len(pfxArgs[1]), Abs(pfxArgs[3])))
        /\ Coloured

\* A coloured prefix for index len(colors), padded for a negative maxLen.
C28_Witness ==
    /\ pfxPc = "returned"
    /\ pfxArgs[2] = NumColors
    /\ ~pfxArgs[4]
    /\ 0 - pfxArgs[3] > Len(pfxArgs[1])
    /\ pfxOut[2] = colors[1]
    /\ Len(Visible(pfxOut)) > Len(pfxArgs[1])

\* ========================================================================
\* Part 11: the limit on completions
\* ========================================================================

\* const maxCompletions.
maxCompletions == 10

\* The lists of completions limitCompletions is called with.
CompletionLists ==
    UNION {[1..n -> {"a", "b"}] : n \in 0..MaxCompletionList}

\* A limit that keeps the last maxCompletions completions.
limitCompletionsTail(completions) ==
    IF Len(completions) > maxCompletions
    THEN [i \in 1..maxCompletions |->
             completions[Len(completions) - maxCompletions + i]]
    ELSE completions

\* limitCompletions: completions[:maxCompletions] when there are more than
\* maxCompletions, else the list itself.
limitCompletions(completions) ==
    IF Len(completions) > maxCompletions
    THEN [i \in 1..maxCompletions |-> completions[i]]
    ELSE completions

\* limitCompletions has been called.
InitLim ==
    /\ limPc = "called"
    /\ limIn \in CompletionLists
    /\ limOut = <<>>
    /\ LimOnly

\* limitCompletions returns.
limitCompletionsReturns ==
    /\ limPc = "called"
    /\ limPc' = "returned"
    /\ limOut' = limitCompletions(limIn)
    /\ UNCHANGED limIn

NextLim == limitCompletionsReturns /\ UNCHANGED notLim

SpecLim == InitLim /\ [][NextLim]_vars

\* ------------------------------------------------------------------------
\* Claims about the limit on completions
\* ------------------------------------------------------------------------

\* C29: limitCompletions returns the first min(len(input), 10) completions
\* in their original order, and returns the input unchanged when it has at
\* most 10 elements.
C29_FirstTen ==
    limPc = "returned" =>
        /\ Len(limOut) = Min(Len(limIn), 10)
        /\ \A i \in 1..Len(limOut) : limOut[i] = limIn[i]
        /\ Len(limIn) <= 10 => limOut = limIn

\* A list of more than 10 completions whose last ones differ from its
\* first ones was cut to 10.
C29_Witness ==
    /\ limPc = "returned"
    /\ Len(limIn) > 10
    /\ Len(limOut) = 10
    /\ limIn[1] # limIn[Len(limIn) - 9]

\* ========================================================================
\* Part 12: tab completion
\* ========================================================================

\* The runes of a line: a string is the sequence of its runes.
DoRunes == {":", "e", "x", " ", "TAB"}

\* ":upload " and the internal commands of completerWithWord.
UploadPrefix == <<":", "u", "p", "l", "o", "a", "d", " ">>

internalCommands ==
    << <<":", "u", "p", "l", "o", "a", "d">>,
       <<":", "e", "x", "i", "t">>,
       <<":", "h", "e", "l", "p">>,
       <<":", "h", "o", "s", "t", "s">>,
       <<":", "v", "e", "r", "b", "o", "s", "e">> >>

\* The lines completion is asked for: the short lines, and lines that
\* start with ":upload ".
DoLines ==
    UNION {[1..n -> DoRunes] : n \in 0..MaxDoLen}
    \cup {UploadPrefix \o s :
             s \in UNION {[1..n -> DoRunes] : n \in 0..MaxUploadArg}}

\* The hosts of a completer: the connected hosts, at least one.
DoHosts == {<<"h1">>, <<"h1", "h2">>}

\* What a compgen run, local or over ssh, gives: an error, or the lines of
\* its output.
CompgenWords == {<<"e">>, <<"e", "x">>, <<".">>}

CompgenOutputs ==
    {[err |-> TRUE, lines |-> <<>>]}
    \cup {[err |-> FALSE, lines |-> l] :
             l \in UNION {[1..n -> CompgenWords] : n \in 0..MaxCompgenLines}}

\* A Go slice of strings: nil or not, and its elements; []string{}.
EmptySlice == [isNil |-> FALSE, elems |-> <<>>]

\* append to a slice declared with var: nil while nothing was appended.
Appended(elems) == [isNil |-> elems = <<>>, elems |-> elems]

\* The suffixes, after prefix, of the lines that start with prefix and are
\* longer than it.
Suffixes(lines, prefix) ==
    LET kept == SelectSeq(lines,
                    LAMBDA l : HasPrefix(l, prefix) /\ Len(l) > Len(prefix))
    IN [i \in 1..Len(kept) |-> TrimPrefix(kept[i], prefix)]

\* The lines of an output that are not "", "." or "..".
NamedLines(lines) ==
    SelectSeq(lines, LAMBDA l : l # <<>> /\ l # <<".">> /\ l # <<".", ".">>)

\* getSSHCompletions: nothing for an empty host or a failed run, else the
\* named lines of the output.
getSSHCompletions(firstHost, output) ==
    IF firstHost = "" \/ output.err \/ output.lines = <<>> THEN EmptySlice
    ELSE Appended(NamedLines(output.lines))

\* strings.SplitN(text, " ", 2)[1]: the text after the first space.
RECURSIVE AfterFirstSpace(_)
AfterFirstSpace(text) ==
    IF text = <<>> THEN <<>>
    ELSE IF Head(text) = " " THEN Tail(text)
         ELSE AfterFirstSpace(Tail(text))

\* completerWithWord: file names after ":upload ", the ends of the internal
\* commands after ":", the remote completions of the first host otherwise;
\* output is what the compgen run of the call gives.
completerWithWord(text, currentWord, hosts, output) ==
    IF text = <<>> THEN EmptySlice
    ELSE IF HasPrefix(text, <<":">>)
         THEN IF HasPrefix(text, UploadPrefix)
              THEN IF output.err THEN EmptySlice
                   ELSE Appended(Suffixes(NamedLines(output.lines),
                                          AfterFirstSpace(text)))
              ELSE LET ends == Suffixes(internalCommands, currentWord)
                   IN Appended([i \in 1..Len(ends) |-> ends[i] \o <<" ">>])
         ELSE Appended(Suffixes(
                  getSSHCompletions(hosts[1], output).elems, currentWord))

\* A rune that ends the search for the word start, were it the space only.
IsWordBreakSpace(r) == r = " "

\* text[i] == ' ' || text[i] == '\t'.
IsWordBreak(r) == r = " " \/ r = "TAB"

\* The loop of Do, at index i (counted from 0) with wordStart still pos.
RECURSIVE WordStartLoop(_, _, _)
WordStartLoop(text, pos, i) ==
    IF i < 0 THEN pos
    ELSE IF IsWordBreak(text[i + 1]) THEN i + 1
         ELSE IF i = 0 THEN 0
              ELSE WordStartLoop(text, pos, i - 1)

\* Do indexes outside the text or outside the hosts.
DoPanics(text, pos, hosts) ==
    \/ pos > Len(text)
    \/ /\ hosts = <<>>
       /\ SubSeq(text, 1, pos) # <<>>
       /\ ~HasPrefix(SubSeq(text, 1, pos), <<":">>)

\* Do has been called.
InitDo ==
    /\ doPc = "called"
    /\ doLine \in DoLines
    /\ doPos \in 0..Len(doLine)
    /\ doHosts \in DoHosts
    /\ doResult = <<>>
    /\ DoOnly

\* Do: the word start, the completions of the word limited to
\* maxCompletions, copied into a slice made for them; a panic where it
\* indexes outside the line or the hosts.
Do(output) ==
    /\ doPc = "called"
    /\ LET lineStr     == SubSeq(doLine, 1, doPos)
           wordStart   == WordStartLoop(doLine, doPos, doPos - 1)
           currentWord == SubSeq(doLine, wordStart + 1, doPos)
           completions == limitCompletions(
               completerWithWord(lineStr, currentWord, doHosts, output).elems)
       IN IF DoPanics(doLine, doPos, doHosts)
          THEN /\ doPc' = "panicked"
               /\ UNCHANGED doResult
          ELSE /\ doPc' = "returned"
               /\ doResult' =
                      [result    |-> [isNil |-> FALSE, elems |-> completions],
                       wordStart |-> wordStart]
    /\ UNCHANGED <<doLine, doPos, doHosts>>

NextDo == (\E output \in CompgenOutputs : Do(output)) /\ UNCHANGED notDo

SpecDo == InitDo /\ [][NextDo]_vars

\* ------------------------------------------------------------------------
\* Claims about tab completion
\* ------------------------------------------------------------------------

\* The positions before the cursor that hold a space or a tab.
BreaksBeforeCursor ==
    {j \in 1..doPos : doLine[j] = " " \/ doLine[j] = "TAB"}

\* The index just after the last space or tab before the cursor, 0 when
\* there is none.
ExpectedWordStart ==
    IF BreaksBeforeCursor = {} THEN 0
    ELSE CHOOSE j \in BreaksBeforeCursor :
             \A k \in BreaksBeforeCursor : k <= j

Pieces == {"Last login", "x", " ", "MARK"}

\* The texts a host writes: each line ends with a newline.
HostTexts ==
    LET lines == UNION {[1..n -> Pieces] : n \in 0..MaxPieces}
    IN UNION {[1..n -> lines] : n \in 0..MaxHostLines}

\* The first position of piece p in s, Len(s) + 1 when there is none.
RECURSIVE IndexOf(_, _, _)
IndexOf(s, p, i) ==
    IF i > Len(s) \/ s[i] = p THEN i ELSE IndexOf(s, p, i + 1)

\* strings.Contains(s, marker).
Contains(s, p) == IndexOf(s, p, 1) <= Len(s)

\* strings.Split(buffer, marker)[0].
BeforeMarker(s) == SubSeq(s, 1, IndexOf(s, "MARK", 1) - 1)

\* strings.TrimRight(s, "\r\n").
RECURSIVE TrimNewlines(_)
TrimNewlines(s) ==
    IF s # <<>> /\ s[Len(s)] = "NL"
    THEN TrimNewlines(SubSeq(s, 1, Len(s) - 1))
    ELSE s

\* strings.Split(s, "\n").
RECURSIVE SplitLines(_)
SplitLines(s) ==
    LET i == IndexOf(s, "NL", 1)
    IN IF i > Len(s) THEN <<s>>
       ELSE <<SubSeq(s, 1, i - 1)>> \o SplitLines(SubSeq(s, i + 1, Len(s)))

\* The lines of a list, each trimmed, without the empty ones.
TrimmedNonEmpty(lines) ==
    SelectSeq([i \in 1..Len(lines) |-> TrimSpace(lines[i])],
              LAMBDA l : l # <<>>)

\* A buffer that is kept after its lines were sent.
BufferKept(b) == b

\* buffer = "".
BufferReset(b) == <<>>

\* ReadHostOutput starts with nothing read.
InitMark ==
    /\ rdPc = "reading"
    /\ hostText \in HostTexts
    /\ consumed = 0
    /\ buffer = <<>>
    /\ delivered = <<>>
    /\ MarkOnly

\* One pass of ReadHostOutput's loop over a line of the host: the escape
\* sequences are stripped, a line that starts with "Last login" is dropped,
\* any other is added to the buffer; once the buffer holds the marker, the
\* lines before it are trimmed and sent, the empty ones left out, and the
\* buffer is reset.
readString ==
    /\ rdPc = "reading"
    /\ consumed < Len(hostText)
    /\ consumed' = consumed + 1
    /\ LET data == stripAnsiEscapeSequences(
                       Append(hostText[consumed + 1], "NL"))
           grown == buffer \o data
       IN IF HasPrefix(data, <<"Last login">>)
          THEN UNCHANGED <<buffer, delivered>>
          ELSE IF Contains(grown, "MARK")
          THEN /\ delivered' = delivered \o TrimmedNonEmpty(
                       SplitLines(TrimNewlines(BeforeMarker(grown))))
               /\ buffer' = BufferReset(grown)
          ELSE /\ buffer' = grown
               /\ UNCHANGED delivered
    /\ UNCHANGED <<rdPc, hostText>>

\* reader.ReadString returns io.EOF: the loop ends and the deferred
\* hs.Close() runs.
readStringEOF ==
    /\ rdPc = "reading"
    /\ consumed = Len(hostText)
    /\ rdPc' = "closed"
    /\ UNCHANGED <<hostText, consumed, buffer, delivered>>

NextMark ==
    \/ readString /\ UNCHANGED notMark
    \/ readStringEOF /\ UNCHANGED notMark

SpecMark == InitMark /\ [][NextMark]_vars

\* ------------------------------------------------------------------------
\* Claims about the reader that waits for the prompt marker
\* ------------------------------------------------------------------------

\* What the claim lets the reader deliver of the lines it has read: walking
\* the lines in order, a line that starts with "Last login" is passed over,
\* a line without marker is held back, and at a line with the marker the
\* lines held back and the text before the marker are given, trimmed and
\* without the blank ones; the text after the marker is not.
RECURSIVE DueOutput(_, _)
DueOutput(lines, held) ==
    IF lines = <<>> THEN <<>>
    ELSE LET l == Head(lines)
         IN IF HasPrefix(l, <<"Last login">>)
            THEN DueOutput(Tail(lines), held)
            ELSE IF "MARK" \in Range(l)
            THEN TrimmedNonEmpty(Append(held, BeforeMarker(l)))
                 \o DueOutput(Tail(lines), <<>>)
            ELSE DueOutput(Tail(lines), Append(held, l))

CtlPieces == {" ", "QUOTE", "upload", "x"}

\* The lines the loop hands to HandleControlCommand: those that start
\* with ':'.
CtlInputs ==
    {<<":">> \o s : s \in UNION {[1..n -> CtlPieces] : n \in 0..MaxCtlLen}}

\* parts after the buffer is flushed into it, if it holds anything.
Flushed(parts, buf) == IF buf # <<>> THEN Append(parts, buf) ELSE parts

\* SplitCommand from position i on, with the parts, the buffer and the
\* quote state reached so far.
RECURSIVE SplitFrom(_, _, _, _, _)
SplitFrom(input, i, parts, buf, inQuotes) ==
    IF i > Len(input) THEN Flushed(parts, buf)
    ELSE IF input[i] = " "
    THEN IF inQuotes
         THEN SplitFrom(input, i + 1, parts, Append(buf, " "), inQuotes)
         ELSE SplitFrom(input, i + 1, Flushed(parts, buf), <<>>, inQuotes)
    ELSE IF input[i] = "QUOTE"
    THEN SplitFrom(input, i + 1, parts, buf, ~inQuotes)
    ELSE SplitFrom(input, i + 1, parts, Append(buf, input[i]), inQuotes)

SplitCommand(input) == SplitFrom(input, 1, <<>>, <<>>, FALSE)

\* HandleControlCommand has been called.
InitCtl ==
    /\ ctlPc = "called"
    /\ ctlInput \in CtlInputs
    /\ ctlOut = <<>>
    /\ CtlOnly

\* HandleControlCommand: the invalid-command message for an input shorter
\* than 2; else the input after ':' is split and its first part decides:
\* the usage message or the upload for "upload", the unknown-command
\* message otherwise.  With no part, commandParts[0] is out of range.
HandleControlCommand ==
    /\ ctlPc = "called"
    /\ IF Len(ctlInput) < 2
       THEN /\ ctlOut' = <<"invalid">>
            /\ ctlPc' = "returned"
       ELSE LET commandParts == SplitCommand(Tail(ctlInput))
            IN IF commandParts = <<>>
               THEN /\ ctlPc' = "panicked"
                    /\ UNCHANGED ctlOut
               ELSE /\ ctlPc' = "returned"
                    /\ ctlOut' =
                           IF commandParts[1] = <<"upload">>
                           THEN IF Len(commandParts) < 2 THEN <<"usage">>
                                ELSE <<"upload">>
                           ELSE <<"unknown">>
    /\ UNCHANGED ctlInput

NextCtl == HandleControlCommand /\ UNCHANGED notCtl

SpecCtl == InitCtl /\ [][NextCtl]_vars

\* ------------------------------------------------------------------------
\* Claims about control commands
\* ------------------------------------------------------------------------

\* C34: for every input line that starts with ':', HandleControlCommand
\* terminates with exactly one outcome: the invalid-command message, the
\* usage message, an upload, or the unknown-command message.  This
\* includes inputs whose text after ':' contains no token (only spaces or
\* double quotes).
C34_OneOutcome ==
    /\ ctlPc # "panicked"
    /\ ctlPc = "returned" =>
           /\ Len(ctlOut) = 1
           /\ ctlOut[1] \in {"invalid", "usage", "upload", "unknown"}

\* ========================================================================
\* Part 15: interrupts and the contexts of command lines
\* ========================================================================

Dispatches == 1..MaxDispatch

\* InteractiveMode is at its prompt; no command line was entered yet.
InitSig ==
    /\ sigPc = "prompt"
    /\ dispatch = 0
    /\ ctx = [k \in Dispatches |-> "none"]
    /\ notified = {}
    /\ pending = {}
    /\ watcher = [k \in Dispatches |-> "none"]
    /\ sigTask = [h \in Hosts |-> "none"]
    /\ hit = {}
    /\ interrupts = 0
    /\ SigOnly

\* A command line: context.WithCancel, a new sigChan registered with
\* signal.Notify, the watcher task started, and executeCommandStreaming
\* starts a task per host under the new context.
dispatchCommand ==
    /\ sigPc = "prompt"
    /\ dispatch < MaxDispatch
    /\ dispatch' = dispatch + 1
    /\ ctx' = [ctx EXCEPT ![dispatch + 1] = "live"]
    /\ notified' = notified \cup {dispatch + 1}
    /\ watcher' = [watcher EXCEPT ![dispatch + 1] = "waiting"]
    /\ sigTask' = [h \in Hosts |-> "running"]
    /\ sigPc' = "running"
    /\ UNCHANGED <<pending, hit, interrupts>>

\* A task of the broadcast ends: its command completed or failed (output
\* and failure notice are printed), or, its context being cancelled, its
\* ssh client was killed.
taskEnds(h, result) ==
    /\ sigPc = "running"
    /\ sigTask[h] = "running"
    /\ result = "killed" => ctx[dispatch] = "cancelled"
    /\ sigTask' = [sigTask EXCEPT ![h] = result]
    /\ UNCHANGED <<sigPc, dispatch, ctx, notified, pending, watcher, hit,
                   interrupts>>

\* executeCommandStreaming returns: wg.Wait() has returned.
executeReturns ==
    /\ sigPc = "running"
    /\ \A h \in Hosts : sigTask[h] # "running"
    /\ sigPc' = "cleanup"
    /\ UNCHANGED <<dispatch, ctx, notified, pending, watcher, sigTask, hit,
                   interrupts>>

\* cancel(); signal.Stop(sigChan): the loop reads the next line.
cancelAndStop ==
    /\ sigPc = "cleanup"
    /\ ctx' = [ctx EXCEPT ![dispatch] = "cancelled"]
    /\ notified' = notified \ {dispatch}
    /\ sigPc' = "prompt"
    /\ UNCHANGED <<dispatch, pending, watcher, sigTask, hit, interrupts>>

\* The interrupt signal: it is put into every registered sigChan (each
\* holds one signal); with none registered the process ends.
interruptSignal ==
    /\ sigPc # "exited"
    /\ interrupts < MaxInterrupts
    /\ interrupts' = interrupts + 1
    /\ IF notified = {}
       THEN /\ sigPc' = "exited"
            /\ UNCHANGED <<pending, hit>>
       ELSE /\ pending' = pending \cup notified
            /\ hit' = hit \cup {dispatch}
            /\ UNCHANGED sigPc
    /\ UNCHANGED <<dispatch, ctx, notified, watcher, sigTask>>

\* The context a watcher would cancel, were it the newest one.
CancelledByNewest(k, newest) == newest

\* The context the watcher of broadcast k cancels: the one made with it.
CancelledBy(k, newest) == k

\* The watcher task of broadcast k: <-sigChan returns, the notice is
\* printed, cancel() is called and the task ends.
watcherWakes(k) ==
    /\ sigPc # "exited"
    /\ watcher[k] = "waiting"
    /\ k \in pending
    /\ pending' = pending \ {k}
    /\ ctx' = [ctx EXCEPT ![CancelledBy(k, dispatch)] = "cancelled"]
    /\ watcher' = [watcher EXCEPT ![k] = "done"]
    /\ UNCHANGED <<sigPc, dispatch, notified, sigTask, hit, interrupts>>

\* ":exit", ":quit" or the end of input: InteractiveMode returns and the
\* process ends.
sessionEnds ==
    /\ sigPc = "prompt"
    /\ sigPc' = "exited"
    /\ UNCHANGED <<dispatch, ctx, notified, pending, watcher, sigTask, hit,
                   interrupts>>

NextSig ==
    \/ dispatchCommand /\ UNCHANGED notSig
    \/ (\E h \in Hosts, result \in {"completed", "failed", "killed"} :
            taskEnds(h, result)) /\ UNCHANGED notSig
    \/ executeReturns /\ UNCHANGED notSig
    \/ cancelAndStop /\ UNCHANGED notSig
    \/ interruptSignal /\ UNCHANGED notSig
    \/ (\E k \in Dispatches : watcherWakes(k)) /\ UNCHANGED notSig
    \/ sessionEnds /\ UNCHANGED notSig

SpecSig == InitSig /\ [][NextSig]_vars

\* ------------------------------------------------------------------------
\* Claims about interrupts
\* ------------------------------------------------------------------------

\* A broadcast whose tasks were cut short had an interrupt of its own: no
\* task is killed unless an interrupt arrived during its broadcast.
KilledOnlyWhenHit ==
    \A h \in Hosts : sigTask[h] = "killed" => dispatch \in hit

\* While a broadcast runs, only an interrupt that arrived during it has
\* cancelled its context.
LiveUnlessHit ==
    (sigPc = "running" /\ dispatch \notin hit) => ctx[dispatch] = "live"

\* C38: cancellation scopes are per dispatch: an interrupt that cancels
\* broadcast k, or one that arrives while no broadcast is in flight, never
\* cancels broadcast k+1 and never suppresses its output or its failure
\* notices.
C38_ScopePerDispatch == KilledOnlyWhenHit /\ LiveUnlessHit

\* The first broadcast was interrupted and cut short; the second one has
\* run to its end with every task completed or failed.
C38_Witness ==
    /\ sigPc = "cleanup"
    /\ dispatch = 2
    /\ hit = {1}
    /\ watcher[1] = "done"
    /\ \A h \in Hosts : sigTask[h] \in {"completed", "failed"}

\* The watcher tasks that have not ended.
LiveWatchers == {k \in Dispatches : watcher[k] = "waiting"}

\* C39: after a broadcast completes, the task that watches for the
\* interrupt signal of that broadcast terminates, so the number of live
\* watcher tasks stays bounded (at most one) over any number of commands
\* in one session.
C39_WatchersBounded ==
    /\ Cardinality(LiveWatchers) <= 1
    /\ sigPc = "prompt" => LiveWatchers = {}

\* ========================================================================
\* Part 16: two registries
\* ========================================================================

\* The registries: two calls of NewSSHConnectionManager, in one process or
\* in two.  Both get the socket directory os.TempDir()/gosh-ssh-sockets.
Managers == {"m1", "m2"}

\* No registry has been made.
InitTwo ==
    /\ manager = [m \in Managers |-> "none"]
    /\ tables = [m \in Managers |-> {}]
    /\ dirExists = FALSE
    /\ sockFiles = {}
    /\ masters = {}
    /\ TwoOnly

\* NewSSHConnectionManager, in a new run or after the registry before it
\* was closed: an empty table, and os.MkdirAll(socketDir).
NewSSHConnectionManager(m) ==
    /\ manager[m] # "alive"
    /\ manager' = [manager EXCEPT ![m] = "alive"]
    /\ dirExists' = TRUE
    /\ UNCHANGED <<tables, sockFiles, masters>>

\* establishConnection of registry m for host h succeeds.  The socket path
\* getSocketPath(h) is in the socket directory and depends on the host
\* only: where no socket is there the ssh client becomes the master and
\* makes it, where one is there it runs without becoming a master.  The
\* session is stored.
establishIn(m, h) ==
    /\ manager[m] = "alive"
    /\ dirExists
    /\ h \notin tables[m]
    /\ sockFiles' = sockFiles \cup {h}
    /\ masters' = IF h \in sockFiles THEN masters ELSE masters \cup {h}
    /\ tables' = [tables EXCEPT ![m] = @ \cup {h}]
    /\ UNCHANGED <<manager, dirExists>>

\* cleanupAllConnections of registry m: for every session of its table
\* "ssh -S socketPath -O exit" ends the master that listens on the socket,
\* the socket file is removed and the entry deleted; then
\* os.RemoveAll(cm.socketDir).
cleanupAllConnections(m) ==
    /\ manager[m] = "alive"
    /\ manager' = [manager EXCEPT ![m] = "closed"]
    /\ masters' = masters \ (tables[m] \cap sockFiles)
    /\ tables' = [tables EXCEPT ![m] = {}]
    /\ dirExists' = FALSE
    /\ sockFiles' = {}

NextTwo ==
    \/ (\E m \in Managers : NewSSHConnectionManager(m)) /\ UNCHANGED notTwo
    \/ (\E m \in Managers, h \in Hosts : establishIn(m, h))
            /\ UNCHANGED notTwo
    \/ (\E m \in Managers : cleanupAllConnections(m)) /\ UNCHANGED notTwo

SpecTwo == InitTwo /\ [][NextTwo]_vars

\* ------------------------------------------------------------------------
\* Claims about two registries
\* ------------------------------------------------------------------------

\* A step keeps the socket file, and the directory that holds it, of every
\* session of a registry that is alive before and after the step.
OthersArtifactsKept ==
    \A m \in Managers :
        (manager[m] = "alive" /\ manager'[m] = "alive") =>
            \A h \in tables[m] :
                h \in sockFiles => (h \in sockFiles' /\ dirExists')

\* C40: two registries that are alive at the same time do not interfere:
\* closing all connections of one registry never removes the artifact (or
\* the directory holding it) of a session that is still connected in the
\* other.
C40_RegistriesIndependent == [][OthersArtifactsKept]_vars

\* ========================================================================
\* Part 6: the upload
\* ========================================================================

\* What os.Stat can find at the path: the file, nothing, or an error other
\* than "does not exist".
FileStates == {"present", "missing", "unreadable"}

\* A printed line: the host whose prefix it carries ("none" for a line
\* without prefix) and what it says.
UploadRecord(h, k) == [host |-> h, kind |-> k]

\* uploadFile has been called with a path.
InitUpload ==
    /\ upPc = "called"
    /\ upFile \in FileStates
    /\ upVerbose \in BOOLEAN
    /\ upConns \in SUBSET Hosts
    /\ scp = [h \in Hosts |-> "none"]
    /\ upOut = <<>>
    /\ UpOnly

\* os.IsNotExist on the error of os.Stat.
StatSaysMissingNever(f) == FALSE

StatSaysMissing(f) == f = "missing"

\* uploadFile up to wg.Wait: the existence check, then one task per
\* session of the registry.
uploadFileBegins ==
    /\ upPc = "called"
    /\ IF StatSaysMissing(upFile)
       THEN /\ upOut' = Append(upOut, UploadRecord("none", "nofile"))
            /\ upPc' = "returned"
            /\ UNCHANGED scp
       ELSE /\ scp' = [h \in Hosts |->
                         IF h \in upConns THEN "spawned" ELSE "none"]
            /\ upPc' = "wait"
            /\ UNCHANGED upOut
    /\ UNCHANGED <<upFile, upVerbose, upConns>>

\* runSCP up to cmd.CombinedOutput: the command is built, printed when
\* Verbose is set, and started.
scpStarts(h) ==
    /\ scp[h] = "spawned"
    /\ scp' = [scp EXCEPT ![h] = "running"]
    /\ upOut' = IF upVerbose
                THEN Append(upOut, UploadRecord("none", "command"))
                ELSE upOut
    /\ UNCHANGED <<upPc, upFile, upVerbose, upConns>>

\* The lines runSCP prints once scp has ended.
OutcomeLines(h, ok, hasOutput) ==
    IF ok THEN <<UploadRecord(h, "success")>>
    ELSE IF hasOutput
         THEN <<UploadRecord(h, "error"), UploadRecord(h, "detail")>>
         ELSE <<UploadRecord(h, "error")>>

\* cmd.CombinedOutput returns and runSCP prints the outcome.  scp cannot
\* succeed on a file it cannot read.
scpEnds(h, ok, hasOutput) ==
    /\ scp[h] = "running"
    /\ upFile = "unreadable" => ~ok
    /\ scp' = [scp EXCEPT ![h] = "done"]
    /\ upOut' = upOut \o OutcomeLines(h, ok, hasOutput)
    /\ UNCHANGED <<upPc, upFile, upVerbose, upConns>>

\* wg.Wait: every task has returned.
CopiesAwaitedNone(c) == TRUE

CopiesAwaited(c) == \A h \in upConns : c[h] = "done"

uploadFileReturns ==
    /\ upPc = "wait"
    /\ CopiesAwaited(scp)
    /\ upPc' = "returned"
    /\ UNCHANGED <<upFile, upVerbose, upConns, scp, upOut>>

NextUpload ==
    \/ uploadFileBegins /\ UNCHANGED notUp
    \/ (\E h \in Hosts : scpStarts(h)) /\ UNCHANGED notUp
    \/ (\E h \in Hosts, ok \in BOOLEAN, hasOutput \in BOOLEAN :
            scpEnds(h, ok, hasOutput)) /\ UNCHANGED notUp
    \/ uploadFileReturns /\ UNCHANGED notUp

SpecUpload == InitUpload /\ [][NextUpload]_vars

\* ------------------------------------------------------------------------
\* Claims about the upload
\* ------------------------------------------------------------------------

\* The kinds of line runSCP prints.
CopyKinds == {"command", "success", "error", "detail"}

\* C18: for an upload of a file that does not exist locally the existence
\* check fails before any copy subprocess is started: no copy is attempted
\* for any host and no per-host copy line is printed.
C18_MissingFileCopiesNothing ==
    upFile = "missing" =>
        /\ \A h \in Hosts : scp[h] = "none"
        /\ \A i \in 1..Len(upOut) : upOut[i].kind \notin CopyKinds
        /\ upPc = "returned" => upOut = <<UploadRecord("none", "nofile")>>

\* The upload of a missing file has returned with sessions in the registry.
C18_Witness ==
    /\ upFile = "missing"
    /\ upPc = "returned"
    /\ upConns = Hosts

\* The outcome lines printed for host h.
Outcomes(h) ==
    {i \in 1..Len(upOut) :
        upOut[i].host = h /\ upOut[i].kind \in {"success", "error"}}

\* Every host has as many outcome lines as copies that have ended, and
\* once uploadFile has returned every session's copy has ended.
OneOutcomePerCopy ==
    /\ \A h \in Hosts :
         Cardinality(Outcomes(h)) = IF scp[h] = "done" THEN 1 ELSE 0
    /\ upPc = "returned" => \A h \in upConns : scp[h] = "done"

\* A step in which the copy to one host ends leaves the copies to the
\* other hosts as they are.
CopyEndsAlone ==
    \A h \in Hosts :
        (scp[h] = "running" /\ scp'[h] = "done") =>
            \A g \in Hosts \ {h} : scp'[g] = scp[g]

\* C19: when an existing file is uploaded each connected host gets exactly
\* one upload outcome line, success or an error carrying that host's
\* prefix; a copy failure on one host never aborts or suppresses the
\* copies to the other hosts, and uploadFile returns only after every copy
\* has finished.
C19_OneOutcomePerHost ==
    /\ [](upFile # "missing" => OneOutcomePerCopy)
    /\ [][CopyEndsAlone]_vars

\* An upload to both hosts has returned after one copy failed and the
\* other succeeded.
C19_Witness ==
    /\ upFile = "present"
    /\ upPc = "returned"
    /\ upConns = Hosts
    /\ \E h \in Hosts, g \in Hosts :
         /\ \E i \in Outcomes(h) : upOut[i].kind = "error"
         /\ \E i \in Outcomes(g) : upOut[i].kind = "success"

====
